---------------------------- MODULE Spec2Model ----------------------------
(***************************************************************************)
(* castari-proxy worker: the audit logger (worker/src/logger.ts) and the   *)
(* request handler (worker/src/index.ts).                                  *)
(*                                                                         *)
(* Text is modelled as a sequence of atoms.  An atom is an indivisible     *)
(* piece of text: a line feed, a space, a field prefix such as "data:", a  *)
(* brace, or the member list of one JSON object (named, and decoded by     *)
(* Fields).  Chunk boundaries fall between atoms.                          *)
(***************************************************************************)
EXTENDS Integers, Sequences, FiniteSets, TLC

VARIABLES
    sent,       \* source: the events written to the byte stream so far
    wire,       \* source: bytes of the last event not yet handed to the reader
    splits,     \* source: chunks so far that ended inside an event
    todo,       \* source, second run: the events still to be written again
    first,      \* what the first run over the stream resolved to
    buffer,     \* reassembleFromSSE: let buffer
    acc,        \* reassembleFromSSE: messageId, model, stopReason, usage, blocks
    collected,  \* reassembleFromSSE: the promise it returns
    readerExit, \* reassembleFromSSE: how the read loop was left
    response,       \* teeAndCollectStream: its argument, with the body the source will give
    clientResponse, \* teeAndCollectStream: the clientResponse it returns
    srcLeft,        \* response.body: the chunks it has not produced yet
    srcState,       \* response.body: open, closed or errored
    clientQ,        \* tee: chunks queued on the client branch
    logQ,           \* tee: chunks queued on the logging branch
    clientGot,      \* the chunks the client has read from clientResponse.body
    logGot,         \* the chunks reassembleFromSSE has read from the logging branch
    clientState,    \* the client's reading of clientResponse.body
    logTasks,       \* writeLogEntry: the promises its calls have returned
    putCalls,       \* bucket.put: the calls made
    bucket,         \* the keys of the objects the bucket holds
    pc,             \* fetch: where the handler is
    req,            \* fetch: provider and body.stream, once routing is decided
    baseEntry,      \* fetch: const baseEntry
    upstream,       \* fetch: how the upstream call ended
    returned,       \* fetch: the response it returns
    thenPending,    \* fetch: collected.then(...) is registered and has not run
    now,            \* fetch: what Date.now() returns
    request,        \* fetch: the request and the environment it was called with
    routing,        \* fetch: let provider, wireModel, originalModel; const apiKey
    upstreamCall,   \* fetch: the call of the upstream it has made
    rejected,       \* fetch: what it answered without calling an upstream
    messages,       \* deriveTurnIndex: its argument, body.messages
    turnIndex       \* deriveTurnIndex: what it returned

srcVars == <<sent, wire, splits, todo, first>>
reVars == <<buffer, acc, collected, readerExit>>
teeVars == <<response, clientResponse, srcLeft, srcState, clientQ, logQ, clientGot,
             logGot, clientState>>
writeVars == <<logTasks, putCalls, bucket>>
fetchVars == <<pc, req, baseEntry, upstream, returned, thenPending, now>>
routeVars == <<request, routing, upstreamCall, rejected, messages, turnIndex>>
vars == <<srcVars, reVars, teeVars, writeVars, fetchVars, routeVars>>

-----------------------------------------------------------------------------
(* Bounds of the model *)

MaxEvents == 4      \* events one stream carries
MaxIrregular == 1   \* events of one stream that break the protocol's order
MaxSplits == 1      \* chunk boundaries of one stream that fall inside an event
MaxRerunEvents == 3 \* events of a stream that is reassembled a second time
MaxUnread == 1      \* events written after the reassembler has stopped reading
MaxTeeChunks == 3   \* chunks of a response body that is teed
MaxWrites == 1      \* calls of writeLogEntry made on their own
MaxTurnIndex == 1   \* turn index of a log entry written on its own
MaxMessages == 3    \* messages of a request body given to deriveTurnIndex
MaxRouteMessages == 1 \* messages of a request body that is routed
MaxFetchChunks == 2 \* chunks of the body an upstream answers with
MaxClock == 1       \* milliseconds that pass while one request is served

-----------------------------------------------------------------------------
(* Strings *)

Nil == "<nil>"      \* undefined or null, for a string-valued field
LF == "\n"
SP == " "

IsSpace(a) == a \in {LF, SP}

MinOf(S) == CHOOSE i \in S : \A j \in S : i <= j

RECURSIVE TrimStart(_)
TrimStart(s) ==
    IF s # <<>> /\ IsSpace(Head(s)) THEN TrimStart(Tail(s)) ELSE s

RECURSIVE TrimEnd(_)
TrimEnd(s) ==
    IF s # <<>> /\ IsSpace(s[Len(s)]) THEN TrimEnd(SubSeq(s, 1, Len(s) - 1)) ELSE s

\* String.prototype.trim
Trim(s) == TrimEnd(TrimStart(s))

\* buffer.indexOf('\n\n'), 1-based; 0 where the code gets -1
IndexOfBlankLine(s) ==
    LET I == {i \in 1..(Len(s) - 1) : s[i] = LF /\ s[i + 1] = LF}
    IN  IF I = {} THEN 0 ELSE MinOf(I)

\* raw.split('\n')
RECURSIVE SplitLines(_)
SplitLines(s) ==
    LET I == {i \in 1..Len(s) : s[i] = LF}
    IN  IF I = {} THEN <<s>>
        ELSE <<SubSeq(s, 1, MinOf(I) - 1)>> \o SplitLines(SubSeq(s, MinOf(I) + 1, Len(s)))

StartsWith(s, a) == s # <<>> /\ Head(s) = a

-----------------------------------------------------------------------------
(* JSON values carried by the events *)

NoUsage == [present |-> FALSE, input_tokens |-> -1, output_tokens |-> -1,
            reasoning_tokens |-> -1]
NoDelta == [present |-> FALSE, type |-> Nil, text |-> <<>>, partial_json |-> <<>>,
            stop_reason |-> Nil, usage |-> NoUsage]

\* a JSON value with none of the members the reassembler reads
NoFields == [type |-> Nil,
             message |-> [present |-> FALSE, id |-> Nil, model |-> Nil],
             index |-> -1,
             content_block |-> [present |-> FALSE, type |-> Nil, text |-> <<>>,
                                id |-> Nil, name |-> Nil],
             delta |-> NoDelta,
             usage |-> NoUsage, stop_reason |-> Nil]

TextBlockStart(i, t) ==
    [NoFields EXCEPT !.type = "content_block_start", !.index = i,
        !.content_block = [present |-> TRUE, type |-> "text", text |-> t,
                           id |-> Nil, name |-> Nil]]

ToolBlockStart(i, id, name) ==
    [NoFields EXCEPT !.type = "content_block_start", !.index = i,
        !.content_block = [present |-> TRUE, type |-> "tool_use", text |-> <<>>,
                           id |-> id, name |-> name]]

TextDelta(i, t) ==
    [NoFields EXCEPT !.type = "content_block_delta", !.index = i,
        !.delta = [NoDelta EXCEPT !.present = TRUE, !.type = "text_delta", !.text = t]]

JsonDelta(i, p) ==
    [NoFields EXCEPT !.type = "content_block_delta", !.index = i,
        !.delta = [NoDelta EXCEPT !.present = TRUE, !.type = "input_json_delta",
                                  !.partial_json = p]]

MessageStart(id, model) ==
    [NoFields EXCEPT !.type = "message_start",
        !.message = [present |-> TRUE, id |-> id, model |-> model]]

\* The member lists that occur in the streams of the model, by name.
ObjectNames ==
    {"ms_a", "cbs_t0", "cbs_u1", "d0_H", "d0_w", "d1_open", "d1_close",
     "cbstop0", "md_end", "mstop", "q",
     "ms_b", "d0_json", "d1_text", "d0_unk", "md_usage", "md_tool", "mstop_max"}

\* The members of the JSON object named m.
Fields(m) ==
    CASE m = "ms_a" -> MessageStart("msg_a", "m1")
      [] m = "cbs_t0" -> TextBlockStart(0, <<"I">>)
      [] m = "cbs_u1" -> ToolBlockStart(1, "tool_1", "search")
      [] m = "d0_H" -> TextDelta(0, <<"H">>)
      [] m = "d0_w" -> TextDelta(0, <<"w">>)
      [] m = "d1_open" -> JsonDelta(1, <<"{", "q">>)
      [] m = "d1_close" -> JsonDelta(1, <<"}">>)
      [] m = "cbstop0" -> [NoFields EXCEPT !.type = "content_block_stop", !.index = 0]
      [] m = "md_end" ->
            [NoFields EXCEPT !.type = "message_delta",
                !.delta = [NoDelta EXCEPT !.present = TRUE, !.stop_reason = "end_turn",
                    !.usage = [present |-> TRUE, input_tokens |-> 10,
                               output_tokens |-> 5, reasoning_tokens |-> -1]]]
      [] m = "mstop" -> [NoFields EXCEPT !.type = "message_stop"]
      [] m = "ms_b" -> MessageStart("msg_b", "m2")
      [] m = "d0_json" -> JsonDelta(0, <<"{", "q">>)
      [] m = "d1_text" -> TextDelta(1, <<"H">>)
      [] m = "d0_unk" ->
            [NoFields EXCEPT !.type = "content_block_delta", !.index = 0,
                !.delta = [NoDelta EXCEPT !.present = TRUE, !.type = "thinking_delta",
                                          !.text = <<"H">>]]
      [] m = "md_usage" ->
            [NoFields EXCEPT !.type = "message_delta",
                !.delta = [NoDelta EXCEPT !.present = TRUE],
                !.usage = [present |-> TRUE, input_tokens |-> 3,
                           output_tokens |-> 4, reasoning_tokens |-> -1]]
      [] m = "md_tool" ->
            [NoFields EXCEPT !.type = "message_delta",
                !.delta = [NoDelta EXCEPT !.present = TRUE, !.stop_reason = "tool_use"]]
      [] m = "mstop_max" ->
            [NoFields EXCEPT !.type = "message_stop", !.stop_reason = "max_tokens"]
      [] OTHER -> NoFields

\* JSON.parse: ok is false where it throws.  An object is <<"{", members, "}">>.
JsonParse(s) ==
    IF s = <<"null">> THEN [ok |-> TRUE, kind |-> "null", members |-> ""]
    ELSE IF s = <<"7">> THEN [ok |-> TRUE, kind |-> "number", members |-> ""]
    ELSE IF s = <<"{", "}">> THEN [ok |-> TRUE, kind |-> "object", members |-> ""]
    ELSE IF Len(s) = 3 /\ s[1] = "{" /\ s[3] = "}" /\ s[2] \in ObjectNames
         THEN [ok |-> TRUE, kind |-> "object", members |-> s[2]]
    ELSE [ok |-> FALSE, kind |-> "", members |-> ""]


-----------------------------------------------------------------------------
(* reassembleFromSSE: the accumulator *)

Hole == [type |-> "hole", text |-> <<>>, id |-> "", name |-> "", inputBuffer |-> <<>>]

\* let messageId = '', model = '', stopReason = null, usage = undefined, blocks = [].
\* named is the property a block start without a numeric index creates on the
\* array (blocks[undefined] = ...): it is no element of the array.
InitAcc ==
    [messageId |-> "", model |-> "", stopReason |-> Nil, usage |-> NoUsage,
     blocks |-> <<>>, named |-> Hole]

\* an index with no block reads as an empty text block
BlockAt_Creates(a, idx) ==
    IF idx # -1 /\ idx + 1 <= Len(a.blocks) /\ a.blocks[idx + 1].type # "hole"
    THEN a.blocks[idx + 1]
    ELSE [Hole EXCEPT !.type = "text"]

\* blocks[idx]; a hole where the array has no element
BlockAt(a, idx) ==
    IF idx = -1 THEN a.named
    ELSE IF idx + 1 <= Len(a.blocks) THEN a.blocks[idx + 1]
    ELSE Hole

\* blocks[idx] = b: the array grows to idx + 1 and the elements skipped are holes
PutBlock(a, idx, b) ==
    IF idx = -1 THEN [a EXCEPT !.named = b]
    ELSE IF idx + 1 <= Len(a.blocks) THEN [a EXCEPT !.blocks[idx + 1] = b]
    ELSE [a EXCEPT !.blocks =
            @ \o [k \in 1..(idx - Len(@)) |-> Hole] \o <<b>>]

Truthy(s) == s # Nil /\ s # ""

\* x ?? y for a string-valued x
Coalesce(x, y) == IF x # Nil THEN x ELSE y

OnMessageStart(a, data) ==
    IF data.message.present
    THEN [a EXCEPT !.messageId = Coalesce(data.message.id, @),
                   !.model = Coalesce(data.message.model, @)]
    ELSE a

OnContentBlockStart(a, data) ==
    LET block == data.content_block
    IN  IF block.present /\ block.type = "text"
        THEN PutBlock(a, data.index,
                 [Hole EXCEPT !.type = "text", !.text = block.text])
        ELSE IF block.present /\ block.type = "tool_use"
        THEN PutBlock(a, data.index,
                 [Hole EXCEPT !.type = "tool_use", !.id = Coalesce(block.id, ""),
                              !.name = Coalesce(block.name, "")])
        ELSE a

\* text = delta.text in place of text += delta.text
OnContentBlockDelta_Overwrite(a, data) ==
    LET idx == data.index
        delta == data.delta
        blk == BlockAt(a, idx)
    IN  IF delta.present /\ blk.type # "hole"
        THEN IF delta.type = "text_delta" /\ blk.type = "text"
             THEN PutBlock(a, idx, [blk EXCEPT !.text = delta.text])
             ELSE IF delta.type = "input_json_delta" /\ blk.type = "tool_use"
             THEN PutBlock(a, idx, [blk EXCEPT !.inputBuffer = @ \o delta.partial_json])
             ELSE a
        ELSE a

OnContentBlockDelta(a, data) ==
    LET idx == data.index
        delta == data.delta
        blk == BlockAt(a, idx)
    IN  IF delta.present /\ blk.type # "hole"
        THEN IF delta.type = "text_delta" /\ blk.type = "text"
             THEN PutBlock(a, idx, [blk EXCEPT !.text = @ \o delta.text])
             ELSE IF delta.type = "input_json_delta" /\ blk.type = "tool_use"
             THEN PutBlock(a, idx, [blk EXCEPT !.inputBuffer = @ \o delta.partial_json])
             ELSE a
        ELSE a

OnMessageDelta(a, data) ==
    LET a1 == IF data.delta.present /\ Truthy(data.delta.stop_reason)
              THEN [a EXCEPT !.stopReason = data.delta.stop_reason]
              ELSE a
        u == IF data.delta.present /\ data.delta.usage.present
             THEN data.delta.usage ELSE data.usage
    IN  IF u.present THEN [a1 EXCEPT !.usage = u] ELSE a1

\* stopReason = data.stop_reason, without the test for a value
OnMessageStop_Resets(a, data) == [a EXCEPT !.stopReason = data.stop_reason]

OnMessageStop(a, data) ==
    IF Truthy(data.stop_reason) THEN [a EXCEPT !.stopReason = data.stop_reason] ELSE a

\* the for loop over raw.split('\n'): the last event: line and the last data: line win
RECURSIVE ScanLines(_, _, _)
ScanLines(lines, eventType, dataStr) ==
    IF lines = <<>> THEN [eventType |-> eventType, dataStr |-> dataStr]
    ELSE LET line == Head(lines)
         IN  IF StartsWith(line, "event:")
             THEN ScanLines(Tail(lines), Trim(Tail(line)), dataStr)
             ELSE IF StartsWith(line, "data:")
             THEN ScanLines(Tail(lines), eventType, Trim(Tail(line)))
             ELSE ScanLines(Tail(lines), eventType, dataStr)

\* eventType || data?.type
SwitchKey(eventType, parsed) ==
    IF eventType # <<>>
    THEN IF Len(eventType) = 1 THEN eventType[1] ELSE "?"
    ELSE IF parsed.kind = "null" THEN Nil
    ELSE Fields(parsed.members).type

\* The switch of processRawEvent on parsed data.  threw: reading a member of null
\* raises a TypeError, which leaves processRawEvent.
Dispatch(a, key, parsed) ==
    LET data == Fields(parsed.members)
        reads == key \in {"message_start", "content_block_start",
                          "content_block_delta", "message_delta", "message_stop"}
    IN  IF parsed.kind = "null" /\ reads THEN [acc |-> a, threw |-> TRUE]
        ELSE [threw |-> FALSE,
              acc |-> CASE key = "message_start" -> OnMessageStart(a, data)
                        [] key = "content_block_start" -> OnContentBlockStart(a, data)
                        [] key = "content_block_delta" -> OnContentBlockDelta(a, data)
                        [] key = "message_delta" -> OnMessageDelta(a, data)
                        [] key = "message_stop" -> OnMessageStop(a, data)
                        [] OTHER -> a]

\* JSON.parse outside a try: data that is no JSON raises
processRawEvent_ParseThrows(a, raw) ==
    IF raw = <<>> \/ StartsWith(raw, ":") THEN [acc |-> a, threw |-> FALSE]
    ELSE LET f == ScanLines(SplitLines(raw), <<>>, <<>>)
             parsed == JsonParse(f.dataStr)
         IN  IF f.dataStr = <<>> \/ f.dataStr = <<"[DONE]">> THEN [acc |-> a, threw |-> FALSE]
             ELSE IF ~parsed.ok THEN [acc |-> a, threw |-> TRUE]
             ELSE Dispatch(a, SwitchKey(f.eventType, parsed), parsed)

processRawEvent(a, raw) ==
    IF raw = <<>> \/ StartsWith(raw, ":") THEN [acc |-> a, threw |-> FALSE]
    ELSE LET f == ScanLines(SplitLines(raw), <<>>, <<>>)
             parsed == JsonParse(f.dataStr)
         IN  IF f.dataStr = <<>> \/ f.dataStr = <<"[DONE]">> THEN [acc |-> a, threw |-> FALSE]
             ELSE IF ~parsed.ok THEN [acc |-> a, threw |-> FALSE]
             ELSE Dispatch(a, SwitchKey(f.eventType, parsed), parsed)

\* The inner while loop: every event of buf that a blank line ends is cut off and
\* processed; what follows the last blank line stays in the buffer.
RECURSIVE Drain(_, _)
Drain(a, buf) ==
    LET boundary == IndexOfBlankLine(buf)
    IN  IF boundary = 0 THEN [acc |-> a, buffer |-> buf, threw |-> FALSE]
        ELSE LET rest == SubSeq(buf, boundary + 2, Len(buf))
                 r == processRawEvent(a, Trim(SubSeq(buf, 1, boundary - 1)))
             IN  IF r.threw THEN [acc |-> r.acc, buffer |-> rest, threw |-> TRUE]
                 ELSE Drain(r.acc, rest)

EmptyObject == [kind |-> "object", members |-> "", raw |-> <<>>]

\* the catch returns {} in place of the string
safeParseJson_DropsRaw(value) ==
    IF value = <<>> THEN EmptyObject
    ELSE LET p == JsonParse(value)
         IN  IF p.ok THEN [kind |-> p.kind, members |-> p.members, raw |-> <<>>]
             ELSE EmptyObject

safeParseJson(value) ==
    IF value = <<>> THEN EmptyObject
    ELSE LET p == JsonParse(value)
         IN  IF p.ok THEN [kind |-> p.kind, members |-> p.members, raw |-> <<>>]
             ELSE [kind |-> "string", members |-> "", raw |-> value]

\* blocks.map(...): a hole of the array stays a hole of content
ContentOf(blocks) ==
    [k \in 1..Len(blocks) |->
        LET block == blocks[k]
        IN  IF block.type = "hole"
            THEN [type |-> "hole", text |-> <<>>, id |-> "", name |-> "", input |-> EmptyObject]
            ELSE IF block.type = "text"
            THEN [type |-> "text", text |-> block.text, id |-> "", name |-> "",
                  input |-> EmptyObject]
            ELSE [type |-> "tool_use", text |-> <<>>, id |-> block.id, name |-> block.name,
                  input |-> safeParseJson(block.inputBuffer)]]

\* randomId('msg'): the identifiers it may return
RandomIds == {"msg_r1", "msg_r2"}

\* the object reassembleFromSSE returns; rid is what randomId('msg') returns
BuildResponse(a, rid) ==
    [id |-> IF a.messageId # "" THEN a.messageId ELSE rid,
     type |-> "message", role |-> "assistant", model |-> a.model,
     stop_reason |-> a.stopReason, stop_sequence |-> Nil,
     content |-> ContentOf(a.blocks), usage |-> a.usage]

Pending == [state |-> "pending", value |-> BuildResponse(InitAcc, Nil)]

\* The function body after the try/catch/finally: the promise is resolved.
Resolve(a, cause) ==
    /\ \E rid \in RandomIds :
          collected' = [state |-> "resolved", value |-> BuildResponse(a, rid)]
    /\ readerExit' = cause

\* buffer = decoder.decode(value) in place of buffer += ...: what was left of
\* the chunk before is lost
ReassembleChunk_ForgetsBuffer(chunk) ==
    /\ collected.state = "pending"
    /\ LET r == Drain(acc, chunk)
       IN  /\ acc' = r.acc
           /\ buffer' = r.buffer
           /\ IF r.threw THEN Resolve(r.acc, "threw")
              ELSE UNCHANGED <<collected, readerExit>>

\* reader.read() gave a chunk: lines 141-149.
ReassembleChunk(chunk) ==
    /\ collected.state = "pending"
    /\ LET r == Drain(acc, buffer \o chunk)
       IN  /\ acc' = r.acc
           /\ buffer' = r.buffer
           /\ IF r.threw THEN Resolve(r.acc, "threw")
              ELSE UNCHANGED <<collected, readerExit>>

\* reader.read() gave done: line 140.
ReassembleDone ==
    /\ collected.state = "pending"
    /\ Resolve(acc, "done")
    /\ UNCHANGED <<acc, buffer>>

\* no catch: the rejection of reader.read() leaves the function
ReassembleReadError_Rejects ==
    /\ collected.state = "pending"
    /\ collected' = [state |-> "rejected", value |-> BuildResponse(InitAcc, Nil)]
    /\ readerExit' = "readError"
    /\ UNCHANGED <<acc, buffer>>

\* reader.read() rejected: the catch of line 151.
ReassembleReadError ==
    /\ collected.state = "pending"
    /\ Resolve(acc, "readError")
    /\ UNCHANGED <<acc, buffer>>

-----------------------------------------------------------------------------
(* The source of a stream: events in the wire format of the unified protocol *)

\* The events a stream of the model is made of.  bad carries data that is no
\* JSON (an object cut short); nul carries the JSON value null.
EventNames ==
    {"ms_a", "cbs_t0", "cbs_u1", "d0_H", "d0_w", "d1_open", "d1_close",
     "cbstop0", "md_end", "mstop", "bad", "nul"}

\* Further events: a second message_start, deltas of a kind that does not match
\* their block and of an unknown kind, a message_delta with usage only, one with
\* another stop reason, a message_stop with a stop reason, and events whose data
\* is a number (num) or an object with none of the members read (lack).
ExtraEvents ==
    {"ms_b", "d0_json", "d1_text", "d0_unk", "md_usage", "md_tool", "mstop_max",
     "num", "lack"}

IsObjectEvent(n) == n \in (EventNames \cup ExtraEvents) \ {"bad", "nul", "num", "lack"}

\* the event: line of event n; "" for an event sent with a data: line only
EventLine(n) ==
    CASE n = "bad" -> "content_block_delta"
      [] n = "nul" -> "message_start"
      [] n = "num" -> "message_delta"
      [] n = "lack" -> "content_block_start"
      [] n \in {"d0_w", "cbs_u1", "md_end", "md_tool"} -> ""
      [] OTHER -> Fields(n).type

\* JSON.stringify(data) of event n
DataText(n) ==
    CASE n = "bad" -> <<"{", "d0_H">>
      [] n = "nul" -> <<"null">>
      [] n = "num" -> <<"7">>
      [] n = "lack" -> <<"{", "q", "}">>
      [] OTHER -> <<"{", n, "}">>

\* `event: ${event}\ndata: ${JSON.stringify(data)}\n\n`
WireOf(n) ==
    (IF EventLine(n) # "" THEN <<"event:", SP, EventLine(n), LF>> ELSE <<>>)
        \o <<"data:", SP>> \o DataText(n) \o <<LF, LF>>

\* The events of the stream whose bytes have all been handed to the reader.
Received ==
    LET written == SubSeq(sent, 1, Len(sent) - Len(todo))
    IN  IF wire = <<>> THEN written ELSE SubSeq(written, 1, Len(written) - 1)

(* The order of events the unified protocol prescribes: message_start first and
   once; content blocks, each index started once, in any order of indices, and
   receiving deltas of its kind until it is stopped; then one message_delta;
   then message_stop. *)
Started(prefix, i) ==
    \E k \in 1..Len(prefix) :
        /\ IsObjectEvent(prefix[k])
        /\ Fields(prefix[k]).type = "content_block_start"
        /\ Fields(prefix[k]).index = i

HasType(prefix, t) ==
    \E k \in 1..Len(prefix) : IsObjectEvent(prefix[k]) /\ Fields(prefix[k]).type = t

Stopped(prefix, i) ==
    \E k \in 1..Len(prefix) :
        /\ IsObjectEvent(prefix[k])
        /\ Fields(prefix[k]).type = "content_block_stop"
        /\ Fields(prefix[k]).index = i

KindAt(prefix, i) ==
    LET k == CHOOSE k \in 1..Len(prefix) :
                /\ IsObjectEvent(prefix[k])
                /\ Fields(prefix[k]).type = "content_block_start"
                /\ Fields(prefix[k]).index = i
    IN  Fields(prefix[k]).content_block.type

RegularAt(events, k) ==
    LET prefix == SubSeq(events, 1, k - 1)
        n == events[k]
        d == Fields(n)
    IN  /\ IsObjectEvent(n)
        /\ IF d.type = "message_start" THEN k = 1
           ELSE /\ k > 1
                /\ IsObjectEvent(events[1])
                /\ Fields(events[1]).type = "message_start"
                /\ ~HasType(prefix, "message_stop")
        /\ d.type = "content_block_start" =>
              /\ ~Started(prefix, d.index)
              /\ ~HasType(prefix, "message_delta")
        /\ d.type = "content_block_delta" =>
              /\ Started(prefix, d.index)
              /\ ~Stopped(prefix, d.index)
              /\ ~HasType(prefix, "message_delta")
              /\ (d.delta.type = "text_delta") = (KindAt(prefix, d.index) = "text")
        /\ d.type = "content_block_stop" =>
              /\ Started(prefix, d.index)
              /\ ~Stopped(prefix, d.index)
              /\ ~HasType(prefix, "message_delta")
        /\ d.type = "message_delta" => ~HasType(prefix, "message_delta")
        /\ d.type = "message_stop" => HasType(prefix, "message_delta")

WellFormed(events) == \A k \in 1..Len(events) : RegularAt(events, k)

IrregularCount(events) == Cardinality({k \in 1..Len(events) : ~RegularAt(events, k)})

\* The chunk ends inside an event: counted against MaxSplits.
CutInside(cut) ==
    IF cut THEN splits < MaxSplits /\ splits' = splits + 1 ELSE splits' = splits

\* The events the source may write next: the stream stays within MaxEvents
\* events, of which at most MaxIrregular break the protocol's order.
WritableOf(names) ==
    IF first.state = "none" /\ collected.state = "pending" /\ Len(sent) < MaxEvents
    THEN {n \in names : IrregularCount(Append(sent, n)) <= MaxIrregular}
    ELSE {}

\* The source writes event n, and reader.read() resolves with the next chunk:
\* what was left of the event before, and the first c bytes of n.
Deliver(n, c) ==
    /\ c \in 1..Len(WireOf(n))
    /\ CutInside(c < Len(WireOf(n)))
    /\ sent' = Append(sent, n)
    /\ wire' = SubSeq(WireOf(n), c + 1, Len(WireOf(n)))
    /\ ReassembleChunk(wire \o SubSeq(WireOf(n), 1, c))
    /\ UNCHANGED <<todo, first, teeVars, writeVars, fetchVars, routeVars>>

\* Second run: the source writes the next event of the same stream again.
Redeliver(c) ==
    /\ todo # <<>>
    /\ c \in 1..Len(WireOf(Head(todo)))
    /\ CutInside(c < Len(WireOf(Head(todo))))
    /\ todo' = Tail(todo)
    /\ wire' = SubSeq(WireOf(Head(todo)), c + 1, Len(WireOf(Head(todo))))
    /\ ReassembleChunk(wire \o SubSeq(WireOf(Head(todo)), 1, c))
    /\ UNCHANGED <<sent, first, teeVars, writeVars, fetchVars, routeVars>>

\* The source writes event n after an exception has ended the read loop: the
\* reader is released, not cancelled, and the bytes of n are never read.
WriteUnread(n) ==
    /\ first.state = "none"
    /\ readerExit = "threw"
    /\ Len(sent) < MaxEvents
    /\ Len(todo) < MaxUnread
    /\ sent' = Append(sent, n)
    /\ todo' = Append(todo, n)
    /\ UNCHANGED <<wire, splits, first, reVars, teeVars, writeVars, fetchVars, routeVars>>

\* reader.read() resolves with the next c bytes of the event written last.
Flush(c) ==
    /\ c \in 1..Len(wire)
    /\ CutInside(c < Len(wire))
    /\ wire' = SubSeq(wire, c + 1, Len(wire))
    /\ ReassembleChunk(SubSeq(wire, 1, c))
    /\ UNCHANGED <<sent, todo, first, teeVars, writeVars, fetchVars, routeVars>>

\* reader.read() resolves with done: the stream has ended (bytes of the last
\* event not handed over by then never arrive).  A second run ends where the
\* stream of the first run ended.
ReadDone ==
    /\ first.state = "none" \/ (todo = <<>> /\ wire = <<>>)
    /\ ReassembleDone
    /\ UNCHANGED <<srcVars, teeVars, writeVars, fetchVars, routeVars>>

\* reader.read() rejects: the stream has failed.
ReadError ==
    /\ first.state = "none"
    /\ ReassembleReadError
    /\ UNCHANGED <<srcVars, teeVars, writeVars, fetchVars, routeVars>>

NotRun == [state |-> "none", value |-> BuildResponse(InitAcc, Nil), synthesized |-> FALSE]

\* reassembleFromSSE is called a second time, on a stream of the same bytes.
Rerun ==
    /\ first.state = "none"
    /\ collected.state = "resolved"
    /\ wire = <<>>
    /\ Len(sent) <= MaxRerunEvents
    /\ first' = [state |-> "resolved", value |-> collected.value,
                 synthesized |-> acc.messageId = ""]
    /\ todo' = sent
    /\ buffer' = <<>>
    /\ acc' = InitAcc
    /\ collected' = Pending
    /\ readerExit' = "none"
    /\ UNCHANGED <<sent, wire, splits, teeVars, writeVars, fetchVars, routeVars>>

\* no stream is being written
InitSource ==
    /\ sent = <<>>
    /\ wire = <<>>
    /\ splits = 0
    /\ todo = <<>>
    /\ first = NotRun

\* reassembleFromSSE up to its first reader.read()
InitReassemble ==
    /\ buffer = <<>>
    /\ acc = InitAcc
    /\ collected = Pending
    /\ readerExit = "none"

\* no call of writeLogEntry has been made
InitWrite ==
    /\ logTasks = <<>>
    /\ putCalls = <<>>
    /\ bucket = {}

NoRequest == [provider |-> "none", stream |-> FALSE, startTime |-> 0]
NoEntry == [present |-> FALSE, provider |-> "none"]

\* fetch has not been called
InitFetchIdle ==
    /\ pc = "idle"
    /\ req = NoRequest
    /\ baseEntry = NoEntry
    /\ upstream = [kind |-> "none", status |-> 0, hasBody |-> FALSE, json |-> FALSE]
    /\ returned = [kind |-> "none", status |-> 0, error |-> Nil, body |-> "none"]
    /\ thenPending = FALSE
    /\ now = 0

NoResolution == [provider |-> "none", wireModel |-> <<>>, originalModel |-> <<>>]
NoRouting == [resolved |-> NoResolution, provider |-> "none", wireModel |-> <<>>,
              originalModel |-> <<>>, apiKey |-> <<>>, entry |-> FALSE]
NoCall == [made |-> FALSE, to |-> "none", model |-> <<>>, key |-> <<>>]
NoRejection == [class |-> "none", about |-> "none"]
NotDerived == -1

\* fetch has not been called, nor deriveTurnIndex
RouteIdle ==
    /\ request = [given |-> FALSE]
    /\ routing = NoRouting
    /\ upstreamCall = NoCall
    /\ rejected = NoRejection
    /\ turnIndex = NotDerived

NoResponse == [status |-> 0, hasBody |-> FALSE, chunks |-> <<>>, ends |-> "close"]
NotReturned == [object |-> "none", status |-> 0, body |-> "none"]

\* teeAndCollectStream has not been called
TeeIdle ==
    /\ clientResponse = NotReturned
    /\ srcLeft = response.chunks
    /\ srcState = "open"
    /\ clientQ = <<>>
    /\ logQ = <<>>
    /\ clientGot = <<>>
    /\ logGot = <<>>
    /\ clientState = "none"

Init ==
    /\ InitSource
    /\ InitReassemble
    /\ response = NoResponse
    /\ TeeIdle
    /\ InitWrite
    /\ InitFetchIdle
    /\ RouteIdle
    /\ messages = <<>>

Next ==
    \/ \E n \in WritableOf(EventNames) : \E c \in 1..Len(WireOf(n)) : Deliver(n, c)
    \/ \E c \in 1..Len(WireOf(Head(todo \o <<"nul">>))) : Redeliver(c)
    \/ \E c \in 1..Len(wire) : Flush(c)
    \/ \E n \in EventNames : WriteUnread(n)
    \/ ReadDone
    \/ ReadError
    \/ Rerun

Spec == Init /\ [][Next]_vars

\* Streams of all the events of the model, each event handed over in one chunk.
NextEvents ==
    \/ \E n \in WritableOf(EventNames \cup ExtraEvents) : Deliver(n, Len(WireOf(n)))
    \/ \E n \in {"ms_a", "md_end"} : WriteUnread(n)
    \/ ReadDone
    \/ ReadError

SpecEvents == Init /\ [][NextEvents]_vars

-----------------------------------------------------------------------------
(* teeAndCollectStream, and the two branches of response.body.tee() *)

\* emptyResponse(); rid is what randomId('msg') returns
emptyResponse(rid) ==
    [id |-> rid, type |-> "message", role |-> "assistant", model |-> "",
     stop_reason |-> Nil, stop_sequence |-> Nil, content |-> <<>>, usage |-> NoUsage]

\* teeAndCollectStream is called with resp
TeeCallFrame(resp) ==
    /\ clientResponse = NotReturned
    /\ response' = resp
    /\ srcLeft' = resp.chunks
    /\ UNCHANGED <<srcState, clientQ, logQ, clientGot, logGot>>

\* new Response(null) in place of the response itself: the status is lost
TeeNoBody_Wraps(resp) ==
    /\ ~resp.hasBody
    /\ clientResponse' = [object |-> "new", status |-> 200, body |-> "null"]
    /\ \E rid \in RandomIds :
          collected' = [state |-> "resolved", value |-> emptyResponse(rid)]
    /\ readerExit' = "noBody"
    /\ clientState' = "done"
    /\ UNCHANGED <<buffer, acc>>
    /\ TeeCallFrame(resp)

\* if (!response.body): the response itself and a promise that is resolved
TeeNoBody(resp) ==
    /\ ~resp.hasBody
    /\ clientResponse' = [object |-> "source", status |-> resp.status, body |-> "null"]
    /\ \E rid \in RandomIds :
          collected' = [state |-> "resolved", value |-> emptyResponse(rid)]
    /\ readerExit' = "noBody"
    /\ clientState' = "done"
    /\ UNCHANGED <<buffer, acc>>
    /\ TeeCallFrame(resp)

\* response.body.tee(), a new Response on the client branch, and
\* reassembleFromSSE(logBranch) up to its first reader.read()
TeeBody(resp) ==
    /\ resp.hasBody
    /\ clientResponse' = [object |-> "new", status |-> resp.status, body |-> "clientBranch"]
    /\ clientState' = "reading"
    /\ UNCHANGED reVars
    /\ TeeCallFrame(resp)

teeAndCollectStream(resp) == TeeNoBody(resp) \/ TeeBody(resp)

Teed == clientResponse.body = "clientBranch"

\* a branch pulls only while the other branch has nothing queued either
TeeWants_Lockstep == clientQ = <<>> /\ logQ = <<>>

\* The tee pulls from the source while a branch has nothing queued.
TeeWants == clientQ = <<>> \/ logQ = <<>>

\* The source gives its next chunk: the tee enqueues it on both branches.
TeePull ==
    /\ Teed
    /\ srcState = "open"
    /\ srcLeft # <<>>
    /\ TeeWants
    /\ srcLeft' = Tail(srcLeft)
    /\ clientQ' = Append(clientQ, Head(srcLeft))
    /\ logQ' = Append(logQ, Head(srcLeft))
    /\ UNCHANGED <<response, clientResponse, srcState, clientGot, logGot, clientState>>

\* The source ends: both branches close once what they have queued is read.
TeeClose ==
    /\ Teed
    /\ srcState = "open"
    /\ srcLeft = <<>>
    /\ response.ends = "close"
    /\ TeeWants
    /\ srcState' = "closed"
    /\ UNCHANGED <<response, clientResponse, srcLeft, clientQ, logQ, clientGot, logGot,
                   clientState>>

\* The source fails: both branches are errored, and what they have queued is gone.
TeeError ==
    /\ Teed
    /\ srcState = "open"
    /\ srcLeft = <<>>
    /\ response.ends = "error"
    /\ TeeWants
    /\ srcState' = "errored"
    /\ clientQ' = <<>>
    /\ logQ' = <<>>
    /\ UNCHANGED <<response, clientResponse, srcLeft, clientGot, logGot, clientState>>

\* the source's side of the tee
TeeSource == TeePull \/ TeeClose \/ TeeError

\* The client reads a chunk of clientResponse.body.
ClientRead ==
    /\ clientState = "reading"
    /\ clientQ # <<>>
    /\ clientGot' = Append(clientGot, Head(clientQ))
    /\ clientQ' = Tail(clientQ)
    /\ UNCHANGED <<response, clientResponse, srcLeft, srcState, logQ, logGot, clientState>>

\* The client's read finds the end, or the failure, of the body.
ClientEnd ==
    /\ clientState = "reading"
    /\ clientQ = <<>>
    /\ srcState # "open"
    /\ clientState' = IF srcState = "closed" THEN "done" ELSE "errored"
    /\ UNCHANGED <<response, clientResponse, srcLeft, srcState, clientQ, logQ, clientGot,
                   logGot>>

\* the client's side of the tee
Client == ClientRead \/ ClientEnd

\* reader.read() of the logging branch resolves with a chunk
LogRead ==
    /\ Teed
    /\ logQ # <<>>
    /\ ReassembleChunk(Head(logQ))
    /\ logGot' = Append(logGot, Head(logQ))
    /\ logQ' = Tail(logQ)
    /\ UNCHANGED <<response, clientResponse, srcLeft, srcState, clientQ, clientGot,
                   clientState>>

\* reader.read() of the logging branch resolves with done, or rejects
LogEnd ==
    /\ Teed
    /\ logQ = <<>>
    /\ srcState # "open"
    /\ IF srcState = "closed" THEN ReassembleDone ELSE ReassembleReadError
    /\ UNCHANGED teeVars

\* the reassembler's side of the tee
Logger == LogRead \/ LogEnd

\* the events the chunks of a teed body carry
TeeEvents == {"ms_a", "cbs_t0", "bad", "nul"}

StatusCodes == {200, 500}

RECURSIVE SeqsUpTo(_, _)
SeqsUpTo(S, n) ==
    IF n = 0 THEN {<<>>}
    ELSE SeqsUpTo(S, n - 1)
            \cup {Append(q, x) : q \in {r \in SeqsUpTo(S, n - 1) : Len(r) = n - 1}, x \in S}

\* the responses teeAndCollectStream is called with
Responses ==
    {[status |-> st, hasBody |-> FALSE, chunks |-> <<>>, ends |-> "close"] :
        st \in StatusCodes}
    \cup {[status |-> st, hasBody |-> TRUE, chunks |-> body, ends |-> e] :
            st \in StatusCodes,
            body \in SeqsUpTo({WireOf(n) : n \in TeeEvents}, MaxTeeChunks),
            e \in {"close", "error"}}

NextTee ==
    \/ \E resp \in Responses : TeeNoBody(resp) /\ UNCHANGED <<srcVars, writeVars, fetchVars, routeVars>>
    \/ \E resp \in Responses : TeeBody(resp) /\ UNCHANGED <<srcVars, writeVars, fetchVars, routeVars>>
    \/ TeePull /\ UNCHANGED <<srcVars, reVars, writeVars, fetchVars, routeVars>>
    \/ TeeClose /\ UNCHANGED <<srcVars, reVars, writeVars, fetchVars, routeVars>>
    \/ TeeError /\ UNCHANGED <<srcVars, reVars, writeVars, fetchVars, routeVars>>
    \/ ClientRead /\ UNCHANGED <<srcVars, reVars, writeVars, fetchVars, routeVars>>
    \/ ClientEnd /\ UNCHANGED <<srcVars, reVars, writeVars, fetchVars, routeVars>>
    \/ LogRead /\ UNCHANGED <<srcVars, writeVars, fetchVars, routeVars>>
    \/ LogEnd /\ UNCHANGED <<srcVars, writeVars, fetchVars, routeVars>>

SpecTee == Init /\ [][NextTee]_vars

-----------------------------------------------------------------------------
(* writeLogEntry *)

\* new Date().toISOString(), character by character
Timestamps ==
    {<<"2", "0", "2", "6", "-", "0", "2", "-", "1", "5", "T",
       "1", "0", ":", "0", "0", ":", "0", "0", ".", "0", "0", "0", "Z">>,
     <<"2", "0", "2", "6", "-", "0", "2", "-", "1", "6", "T",
       "0", "9", ":", "3", "0", ":", "0", "0", ".", "0", "0", "0", "Z">>}

DateLength == 10

\* s.slice(0, n)
Slice(s, n) == SubSeq(s, 1, IF Len(s) < n THEN Len(s) ELSE n)

\* String(n) of a number that is a natural: its decimal digits
RECURSIVE Decimal(_)
Decimal(n) ==
    IF n < 10 THEN <<ToString(n)>> ELSE Decimal(n \div 10) \o <<ToString(n % 10)>>

\* the turn index left out: `logs/${date}/${entry.sessionId}/${entry.requestId}.json`
buildLogKey_NoTurn(entry) ==
    <<"logs/">> \o Slice(entry.timestamp, DateLength)
        \o <<"/">> \o entry.sessionId \o <<"/">> \o entry.requestId \o <<".json">>

\* `logs/${date}/${entry.sessionId}/${entry.turnIndex}_${entry.requestId}.json`
buildLogKey(entry) ==
    <<"logs/">> \o Slice(entry.timestamp, DateLength)
        \o <<"/">> \o entry.sessionId \o <<"/">> \o Decimal(entry.turnIndex)
        \o <<"_">> \o entry.requestId \o <<".json">>

NullLogged == [present |-> FALSE, value |-> BuildResponse(InitAcc, Nil)]
NoError == [present |-> FALSE, status |-> 0, message |-> "none"]

\* how a call of bucket.put ends
PutBehaviours == {"resolves", "rejects", "throws"}

(* writeLogEntry(bucket, entry) up to its await: the key, JSON.stringify (which
   throws for an entry that is not serializable) and the call of bucket.put,
   which ends as b says.  What is thrown is caught: the promise is resolved. *)
writeLogEntry(entry, b) ==
    LET called == entry.serializable
    IN  /\ putCalls' =
              IF called
              THEN Append(putCalls, [task |-> Len(logTasks) + 1, key |-> buildLogKey(entry),
                                     body |-> [json |-> entry]])
              ELSE putCalls
        /\ logTasks' =
              Append(logTasks,
                  [entry |-> entry,
                   put |-> IF called THEN b ELSE "none",
                   state |-> IF called /\ b # "throws" THEN "awaitPut" ELSE "resolved",
                   value |-> Nil])
        /\ UNCHANGED bucket

\* no catch: a rejection of bucket.put rejects the promise of writeLogEntry
WriteSettles_Propagates(i) ==
    /\ i \in DOMAIN logTasks
    /\ logTasks[i].state = "awaitPut"
    /\ logTasks' = [logTasks EXCEPT ![i].state =
                        IF logTasks[i].put = "rejects" THEN "rejected" ELSE "resolved"]
    /\ bucket' = IF logTasks[i].put = "resolves"
                 THEN bucket \cup {buildLogKey(logTasks[i].entry)} ELSE bucket
    /\ UNCHANGED putCalls

\* The promise of bucket.put settles: writeLogEntry returns, or catches.
WriteSettles(i) ==
    /\ i \in DOMAIN logTasks
    /\ logTasks[i].state = "awaitPut"
    /\ logTasks' = [logTasks EXCEPT ![i].state = "resolved"]
    /\ bucket' = IF logTasks[i].put = "resolves"
                 THEN bucket \cup {buildLogKey(logTasks[i].entry)} ELSE bucket
    /\ UNCHANGED putCalls

\* randomId('req'): the request ids it may return, character by character
RequestIds == {<<"r", "_", "1">>, <<"r", "_", "2">>}

\* The session ids of a request: what randomId('sess') may return or what the
\* header x-castari-session-id holds, which is any text.
SessionIds == {<<"s", "_", "1">>, <<"s", "/", "0">>, <<"s", "/", "0", "_", "r">>}

\* the log entries writeLogEntry is called with
Entries ==
    [requestId : RequestIds, sessionId : SessionIds,
     turnIndex : 0..MaxTurnIndex, timestamp : Timestamps, serializable : BOOLEAN,
     response : {NullLogged}, latencyMs : {0}, streaming : BOOLEAN, error : {NoError}]

CallWrite(entry, b) ==
    /\ Len(logTasks) < MaxWrites
    /\ writeLogEntry(entry, b)
    /\ UNCHANGED <<srcVars, reVars, teeVars, fetchVars, routeVars>>

NextWrite ==
    \/ \E entry \in Entries, b \in PutBehaviours : CallWrite(entry, b)
    \/ \E i \in DOMAIN logTasks :
          WriteSettles(i) /\ UNCHANGED <<srcVars, reVars, teeVars, fetchVars, routeVars>>

SpecWrite == Init /\ [][NextWrite]_vars

-----------------------------------------------------------------------------
(* deriveTurnIndex *)

\* a message: its role, and whether its content is a string or a list of blocks
Messages == [role : {"user", "assistant", "system"}, content : {"string", "blocks"}]

\* for (const msg of messages) { if (msg.role === 'assistant') count++; }
\* from the k-th message on, with count so far
RECURSIVE ForOf(_, _, _)
ForOf(msgs, k, count) ==
    IF k > Len(msgs) THEN count
    ELSE ForOf(msgs, k + 1, IF msgs[k].role = "assistant" THEN count + 1 ELSE count)

\* if (msg.role !== 'user') count++
deriveTurnIndex_NotUser(msgs) ==
    Len(SelectSeq(msgs, LAMBDA msg : msg.role # "user"))

deriveTurnIndex(msgs) == ForOf(msgs, 1, 0)

\* deriveTurnIndex(messages) is called and returns
DeriveTurnIndex ==
    /\ turnIndex = NotDerived
    /\ turnIndex' = deriveTurnIndex(messages)
    /\ UNCHANGED <<request, routing, upstreamCall, rejected, messages>>
    /\ UNCHANGED <<srcVars, reVars, teeVars, writeVars, fetchVars>>

\* the message sequences deriveTurnIndex is called with
InitTurn ==
    /\ InitSource
    /\ InitReassemble
    /\ response = NoResponse
    /\ TeeIdle
    /\ InitWrite
    /\ InitFetchIdle
    /\ RouteIdle
    /\ messages \in SeqsUpTo(Messages, MaxMessages)

NextTurn == DeriveTurnIndex

SpecTurn == InitTurn /\ [][NextTurn]_vars

-----------------------------------------------------------------------------
(* fetch, from its call to the call of an upstream: lines 19 to 161 *)

\* config.openRouterDefaultVendor
DefaultVendor == <<"openai">>

\* body.model: model identifiers, in pieces that are never cut
Models ==
    {<<"claude">>, <<"or", ":", "gpt">>, <<"or", ":", "meta", "/", "llama">>,
     <<"vllm", ":", "meta", "/", "llama">>, <<"vllm", "/", "local">>,
     <<"sglang", ":", "ds">>}

\* model starts with name followed by one of seps
HasPrefix(model, name, seps) ==
    Len(model) >= 2 /\ model[1] = name /\ model[2] \in seps

\* model without its first two pieces
Stripped(model) == SubSeq(model, 3, Len(model))

\* an OpenRouter model with no vendor segment gets the default vendor
Qualified(model) ==
    IF \E k \in DOMAIN model : model[k] = "/" THEN model
    ELSE DefaultVendor \o <<"/">> \o model

resolveProvider_HeaderFirst(headers, model) ==
    IF headers.provider # "none"
    THEN [provider |-> headers.provider,
          wireModel |-> IF headers.wireModel # <<>> THEN headers.wireModel ELSE model,
          originalModel |-> model]
    ELSE IF HasPrefix(model, "or", {":"})
    THEN [provider |-> "openrouter", wireModel |-> Stripped(model), originalModel |-> model]
    ELSE IF HasPrefix(model, "vllm", {":", "/"})
    THEN [provider |-> "vllm", wireModel |-> Stripped(model), originalModel |-> model]
    ELSE IF HasPrefix(model, "sglang", {":", "/"})
    THEN [provider |-> "sglang", wireModel |-> Stripped(model), originalModel |-> model]
    ELSE [provider |-> "anthropic", wireModel |-> model, originalModel |-> model]

\* resolveProvider(headers, body, config): a recognized prefix of the model
\* first, the routing headers second, the native provider otherwise
resolveProvider(headers, model) ==
    IF HasPrefix(model, "or", {":"})
    THEN [provider |-> "openrouter", wireModel |-> Qualified(Stripped(model)),
          originalModel |-> model]
    ELSE IF HasPrefix(model, "vllm", {":", "/"})
    THEN [provider |-> "vllm", wireModel |-> Stripped(model), originalModel |-> model]
    ELSE IF HasPrefix(model, "sglang", {":", "/"})
    THEN [provider |-> "sglang", wireModel |-> Stripped(model), originalModel |-> model]
    ELSE IF headers.provider # "none"
    THEN [provider |-> headers.provider,
          wireModel |-> IF headers.wireModel # <<>> THEN headers.wireModel ELSE model,
          originalModel |-> model]
    ELSE [provider |-> "anthropic", wireModel |-> model, originalModel |-> model]

\* toLowerCase() of the first word of an authorization header
Lower(word) == IF word \in {"Bearer", "bearer", "BEARER"} THEN "bearer" ELSE word

\* auth && auth.toLowerCase().startsWith('bearer '); a header that is absent is
\* the empty text here, the code treating null and '' alike
IsBearer(auth) == Len(auth) >= 2 /\ Lower(auth[1]) = "bearer" /\ auth[2] = SP

\* auth.slice(7).trim()
BearerToken(auth) == Trim(SubSeq(auth, 3, Len(auth)))

\* extractApiKey(headers): the value, or throws when there is none
extractApiKey(headers) ==
    IF IsBearer(headers.authorization) /\ BearerToken(headers.authorization) # <<>>
    THEN [throws |-> FALSE, value |-> BearerToken(headers.authorization)]
    ELSE IF headers.xApiKey # <<>>
    THEN [throws |-> FALSE, value |-> headers.xApiKey]
    ELSE [throws |-> TRUE, value |-> <<>>]

\* extractOptionalApiKey(headers): the value; undefined is the empty text here
extractOptionalApiKey(headers) ==
    IF /\ IsBearer(headers.authorization)
       /\ BearerToken(headers.authorization) \notin {<<>>, <<"no-auth">>}
    THEN BearerToken(headers.authorization)
    ELSE IF headers.xApiKey \notin {<<>>, <<"no-auth">>}
    THEN headers.xApiKey
    ELSE <<>>

\* the authorization and x-api-key headers of a request
Authorizations ==
    {<<>>, <<"Bearer", SP>>, <<"Bearer", SP, "no-auth">>, <<"bearer", SP, SP, "tok", SP>>,
     <<"Basic", SP, "tok">>}
ApiKeys == {<<>>, <<"no-auth">>, <<"key">>}

\* the routing headers, as normalizeCastariHeaders gives them
RoutingHeaders ==
    [provider : {"none", "anthropic", "vllm"}, wireModel : {<<>>, <<"custom">>}]

\* A request, and the environment the worker runs in.  otherServerTools and
\* mcp tell whether categorizeServerTools finds a server tool that is no web
\* search, and whether body.mcp_servers holds a server.
RouteInputs ==
    [given : {TRUE}, route : BOOLEAN, parses : BOOLEAN, model : Models,
     headers : RoutingHeaders, authorization : Authorizations, xApiKey : ApiKeys,
     otherServerTools : BOOLEAN, mcp : BOOLEAN,
     messages : SeqsUpTo({[role |-> "assistant", content |-> "blocks"]}, MaxRouteMessages),
     serverToolsMode : {"error", "enforceAnthropic", "emulate"},
     bridge : {"http-sse", "off"}, configured : BOOLEAN]

McpUnbridged_AnyProvider(i, provider) == i.mcp /\ i.bridge # "http-sse"

\* line 74: MCP servers are declared, the provider is not the native one and
\* the bridge mode is not http-sse
McpUnbridged(i, provider) ==
    i.mcp /\ provider # "anthropic" /\ i.bridge # "http-sse"

\* What fetch does with request i up to its upstream call, lines 21 to 161:
\* what it throws or answers, or the call it makes, and its locals by then.
Route(i) ==
    LET r == resolveProvider(i.headers, i.model)
        optional == r.provider \in {"vllm", "sglang"}
        key == IF optional THEN [throws |-> FALSE, value |-> extractOptionalApiKey(i)]
               ELSE extractApiKey(i)
        policy == r.provider # "anthropic" /\ i.otherServerTools
        enforced == policy /\ i.serverToolsMode = "enforceAnthropic"
        provider == IF enforced THEN "anthropic" ELSE r.provider
        wireModel == IF enforced THEN r.originalModel ELSE r.wireModel
        locals(built) ==
            [resolved |-> r, provider |-> provider, wireModel |-> wireModel,
             originalModel |-> r.originalModel, apiKey |-> key.value, entry |-> built]
        ends(class, about, rt, derived) ==
            [rejected |-> [class |-> class, about |-> about], routing |-> rt,
             upstreamCall |-> NoCall,
             turnIndex |-> IF derived THEN deriveTurnIndex(i.messages) ELSE NotDerived]
    IN  IF ~i.route THEN ends("notFound", "none", NoRouting, FALSE)
        ELSE IF ~i.parses THEN ends("body", "none", NoRouting, FALSE)
        ELSE IF key.throws
        THEN ends("authentication", "apiKey",
                  [NoRouting EXCEPT !.resolved = r, !.provider = r.provider,
                                    !.wireModel = r.wireModel,
                                    !.originalModel = r.originalModel], TRUE)
        ELSE IF policy /\ i.serverToolsMode = "error"
        THEN ends("invalid_request", "serverTools",
                  [locals(FALSE) EXCEPT !.provider = r.provider,
                                        !.wireModel = r.wireModel], TRUE)
        ELSE IF McpUnbridged(i, provider)
        THEN ends("invalid_request", "mcp", locals(FALSE), TRUE)
        ELSE IF provider \in {"vllm", "sglang"} /\ ~i.configured
        THEN ends("invalid_request", "configuration", locals(TRUE), TRUE)
        ELSE [rejected |-> NoRejection, routing |-> locals(TRUE),
              upstreamCall |->
                  [made |-> TRUE, to |-> provider,
                   model |-> IF provider = "anthropic" THEN i.model ELSE wireModel,
                   key |-> key.value],
              turnIndex |-> deriveTurnIndex(i.messages)]

\* fetch is called with request i and runs up to its answer or its upstream call
RouteRequest(i, outcomes) ==
    LET done == Route(i)
    IN  /\ ~request.given
        /\ done.rejected.class \in outcomes
        /\ request' = i
        /\ messages' = i.messages
        /\ routing' = done.routing
        /\ upstreamCall' = done.upstreamCall
        /\ rejected' = done.rejected
        /\ turnIndex' = done.turnIndex
        /\ UNCHANGED <<srcVars, reVars, teeVars, writeVars, fetchVars>>

\* lines 21 to 23: a path or a method that is not served
RouteNotFound(i) == RouteRequest(i, {"notFound"})

\* a throw before the upstream call, caught at line 162
RouteRejects(i) == RouteRequest(i, {"body", "authentication", "invalid_request"})

\* lines 112 to 147: the upstream of the provider is called
RouteDispatches(i) == RouteRequest(i, {"none"})

\* the requests that may arrive: one request is followed from its arrival
Arriving == IF request.given THEN {} ELSE RouteInputs

NextRoute ==
    \/ \E i \in Arriving : RouteNotFound(i)
    \/ \E i \in Arriving : RouteRejects(i)
    \/ \E i \in Arriving : RouteDispatches(i)

SpecRoute == Init /\ [][NextRoute]_vars

-----------------------------------------------------------------------------
(* fetch *)

Providers == {"anthropic", "openrouter", "vllm", "sglang"}

\* What the handler decides on before it calls an upstream: the request, and
\* the configuration it runs with.  resolved is what resolveProvider returns.
FetchInputs ==
    [route : BOOLEAN, parses : BOOLEAN, resolved : Providers,
     credential : {"none", "no-auth", "key"}, otherServerTools : BOOLEAN,
     mcp : BOOLEAN, stream : BOOLEAN,
     serverToolsMode : {"error", "enforceAnthropic", "emulate"},
     bridge : {"http-sse", "off"}, configured : BOOLEAN]

\* extractOptionalApiKey for vllm and sglang, extractApiKey(...).value otherwise;
\* "throws" where extractApiKey throws
ApiKeyOf(i) ==
    IF i.resolved \in {"vllm", "sglang"}
    THEN IF i.credential = "key" THEN "key" ELSE "none"
    ELSE IF i.credential = "none" THEN "throws" ELSE i.credential

\* lines 21 to 129: the response of a request that is turned down, or the
\* provider of one that goes upstream; entry tells whether baseEntry was built
Routing(i) ==
    LET nonAnthropic == i.resolved # "anthropic"
        provider == IF nonAnthropic /\ i.otherServerTools
                       /\ i.serverToolsMode = "enforceAnthropic"
                    THEN "anthropic" ELSE i.resolved
        turned(kind, class, built) ==
            [outcome |-> kind, error |-> class, provider |-> provider, entry |-> built]
    IN  IF ~i.route THEN turned("notFound", Nil, FALSE)
        ELSE IF ~i.parses THEN turned("error", "body", FALSE)
        ELSE IF ApiKeyOf(i) = "throws" THEN turned("error", "authentication", FALSE)
        ELSE IF nonAnthropic /\ i.otherServerTools /\ i.serverToolsMode = "error"
        THEN turned("error", "invalid_request", FALSE)
        ELSE IF McpUnbridged(i, provider)
        THEN turned("error", "invalid_request", FALSE)
        ELSE IF provider \in {"vllm", "sglang"} /\ ~i.configured
        THEN turned("error", "invalid_request", TRUE)
        ELSE turned("proceed", Nil, TRUE)

\* errorResponse(error)
errorResponse(class) == [kind |-> "error", status |-> 0, error |-> class, body |-> "error"]

\* new Response('Not found', { status: 404 })
FetchNotFound(i) ==
    /\ pc = "idle"
    /\ Routing(i).outcome = "notFound"
    /\ returned' = [kind |-> "notFound", status |-> 404, error |-> Nil, body |-> "Not found"]
    /\ pc' = "respond"
    /\ UNCHANGED <<req, baseEntry, upstream, thenPending, now>>
    /\ UNCHANGED <<routeVars, srcVars, reVars, teeVars, writeVars>>

\* a throw before the upstream call, caught at line 162
FetchRejects(i) ==
    /\ pc = "idle"
    /\ Routing(i).outcome = "error"
    /\ returned' = errorResponse(Routing(i).error)
    /\ baseEntry' = IF Routing(i).entry
                    THEN [present |-> TRUE, provider |-> Routing(i).provider]
                    ELSE NoEntry
    /\ pc' = "respond"
    /\ UNCHANGED <<req, upstream, thenPending, now>>
    /\ UNCHANGED <<routeVars, srcVars, reVars, teeVars, writeVars>>

\* baseEntry is built and the upstream is called: the handler awaits its answer
FetchRoutes(i) ==
    /\ pc = "idle"
    /\ Routing(i).outcome = "proceed"
    /\ req' = [provider |-> Routing(i).provider, stream |-> i.stream, startTime |-> now]
    /\ baseEntry' = [present |-> TRUE, provider |-> Routing(i).provider]
    /\ pc' = "upstream"
    /\ UNCHANGED <<upstream, returned, thenPending, now>>
    /\ UNCHANGED <<routeVars, srcVars, reVars, teeVars, writeVars>>

\* the entry scheduleLog builds from baseEntry
EntryOf(logged, streaming, error) ==
    [requestId |-> <<"r", "_", "1">>, sessionId |-> <<"s", "_", "1">>, turnIndex |-> 0,
     timestamp |-> CHOOSE t \in Timestamps : t[10] = "5", serializable |-> TRUE,
     response |-> logged, latencyMs |-> now - req.startTime, streaming |-> streaming,
     error |-> error]

\* scheduleLog: ctx.waitUntil(writeLogEntry(env.LOG_BUCKET, entry))
scheduleLog(logged, streaming, error) ==
    \E b \in PutBehaviours : writeLogEntry(EntryOf(logged, streaming, error), b)

\* the upstream call rejects: caught at line 162
FetchUpstreamFails ==
    /\ pc = "upstream"
    /\ upstream' = [kind |-> "failed", status |-> 0, hasBody |-> FALSE, json |-> FALSE]
    /\ returned' = errorResponse("internal")
    /\ pc' = "respond"
    /\ UNCHANGED <<req, baseEntry, thenPending, now>>
    /\ UNCHANGED <<routeVars, srcVars, reVars, teeVars, writeVars>>

IsOk(status) == status \in 200..299

\* the bodies an upstream may send with a status that is not 2xx
ErrorBodies == {"json", "text", "empty"}

\* proxyAnthropic, lines 206 to 214: text || JSON.stringify({ error: ... })
NativeErrorText(body) == IF body = "empty" THEN "default" ELSE "upstream"

\* lines 114 to 118: the native upstream answers with a status that is not 2xx
FetchNativeError(status, body) ==
    /\ pc = "upstream"
    /\ req.provider = "anthropic"
    /\ ~IsOk(status)
    /\ upstream' = [kind |-> "non2xx", status |-> status, hasBody |-> body # "empty",
                    json |-> body = "json"]
    /\ scheduleLog(NullLogged, FALSE,
                   [present |-> TRUE, status |-> status, message |-> NativeErrorText(body)])
    /\ returned' = [kind |-> "upstream", status |-> status, error |-> Nil,
                    body |-> NativeErrorText(body)]
    /\ pc' = "respond"
    /\ UNCHANGED <<req, baseEntry, thenPending, now>>
    /\ UNCHANGED <<routeVars, srcVars, reVars, teeVars>>

\* What handleOpenAICompatible and handleOpenRouter throw on a status that is
\* not 2xx: an invalid request; or, of a request that is not streamed, what
\* upstreamResp.json() throws on a body that is no JSON.
CompatErrorClass(stream, body) ==
    IF ~stream /\ body # "json" THEN "internal" ELSE "invalid_request"

\* handleOpenAICompatible, handleOpenRouter: a status that is not 2xx ends in a
\* throw, caught at line 162
FetchCompatError(status, body) ==
    /\ pc = "upstream"
    /\ req.provider # "anthropic"
    /\ ~IsOk(status)
    /\ upstream' = [kind |-> "non2xx", status |-> status, hasBody |-> body # "empty",
                    json |-> body = "json"]
    /\ returned' = errorResponse(CompatErrorClass(req.stream, body))
    /\ pc' = "respond"
    /\ UNCHANGED <<req, baseEntry, thenPending, now>>
    /\ UNCHANGED <<routeVars, srcVars, reVars, teeVars, writeVars>>

\* a response body that is not a stream of events: JSON.stringify of a message
JsonBody == <<"{", "message", "}">>

\* logStreamingResponse(resp): lines 120, 139 and 157
FetchStreams(resp) ==
    /\ pc = "upstream"
    /\ IsOk(resp.status)
    /\ req.provider = "anthropic" \/ req.stream
    /\ upstream' = [kind |-> "ok", status |-> resp.status, hasBody |-> resp.hasBody,
                    json |-> resp.chunks = <<JsonBody>>]
    /\ teeAndCollectStream(resp)
    /\ thenPending' = TRUE
    /\ returned' = [kind |-> "tee", status |-> clientResponse'.status, error |-> Nil,
                    body |-> clientResponse'.body]
    /\ pc' = "respond"
    /\ UNCHANGED <<req, baseEntry, now>>
    /\ UNCHANGED <<routeVars, srcVars, writeVars>>

\* mapOpenRouterResponse(json, originalModel), as resp.clone().json() gives it
TranslatedResponse ==
    [present |-> TRUE,
     value |-> [BuildResponse(InitAcc, "msg_up") EXCEPT !.stop_reason = "end_turn"]]

\* lines 141 to 144 and 159 to 161: the translated response is logged and returned
FetchTranslates ==
    /\ pc = "upstream"
    /\ req.provider # "anthropic"
    /\ ~req.stream
    /\ upstream' = [kind |-> "ok", status |-> 200, hasBody |-> TRUE, json |-> TRUE]
    /\ scheduleLog(TranslatedResponse, FALSE, NoError)
    /\ returned' = [kind |-> "translated", status |-> 200, error |-> Nil, body |-> "json"]
    /\ pc' = "respond"
    /\ UNCHANGED <<req, baseEntry, thenPending, now>>
    /\ UNCHANGED <<routeVars, srcVars, reVars, teeVars>>

\* the handler does not return before all it has scheduled is settled
FetchReturns_AfterLog ==
    /\ pc = "respond"
    /\ ~thenPending
    /\ \A k \in DOMAIN logTasks : logTasks[k].state # "awaitPut"
    /\ pc' = "done"
    /\ UNCHANGED <<req, baseEntry, upstream, returned, thenPending, now>>
    /\ UNCHANGED <<routeVars, srcVars, reVars, teeVars, writeVars>>

\* The promise of fetch is resolved with the response: the client has it.
FetchReturns ==
    /\ pc = "respond"
    /\ pc' = "done"
    /\ UNCHANGED <<req, baseEntry, upstream, returned, thenPending, now>>
    /\ UNCHANGED <<routeVars, srcVars, reVars, teeVars, writeVars>>

\* collected.then((assembled) => scheduleLog(assembled, true))
LogAssembled ==
    /\ thenPending
    /\ collected.state = "resolved"
    /\ scheduleLog([present |-> TRUE, value |-> collected.value], TRUE, NoError)
    /\ thenPending' = FALSE
    /\ UNCHANGED <<pc, req, baseEntry, upstream, returned, now>>
    /\ UNCHANGED <<routeVars, srcVars, reVars, teeVars>>

\* a millisecond passes while the request is served
Tick ==
    /\ pc # "idle"
    /\ now < MaxClock
    /\ now' = now + 1
    /\ UNCHANGED <<pc, req, baseEntry, upstream, returned, thenPending>>
    /\ UNCHANGED <<routeVars, srcVars, reVars, teeVars, writeVars>>

\* the bodies of the responses that are teed: of the native upstream, streamed
\* or not, and of streamOpenRouterToAnthropic
FetchResponses ==
    IF req.stream
    THEN {[status |-> 200, hasBody |-> TRUE, chunks |-> body, ends |-> e] :
            body \in SeqsUpTo({WireOf("ms_a"), WireOf("md_end"), WireOf("nul")},
                             MaxFetchChunks),
            e \in {"close", "error"}}
    ELSE {[status |-> 200, hasBody |-> TRUE, chunks |-> <<JsonBody>>, ends |-> "close"],
          [status |-> 200, hasBody |-> FALSE, chunks |-> <<>>, ends |-> "close"]}

\* the requests fetch may be called with: one request is followed
FetchArriving == IF pc = "idle" THEN FetchInputs ELSE {}

NextFetch ==
    \/ \E i \in FetchArriving : FetchNotFound(i)
    \/ \E i \in FetchArriving : FetchRejects(i)
    \/ \E i \in FetchArriving : FetchRoutes(i)
    \/ FetchUpstreamFails
    \/ \E status \in StatusCodes, body \in ErrorBodies : FetchNativeError(status, body)
    \/ \E status \in StatusCodes, body \in ErrorBodies : FetchCompatError(status, body)
    \/ \E resp \in FetchResponses : FetchStreams(resp)
    \/ FetchTranslates
    \/ FetchReturns
    \/ LogAssembled
    \/ Tick
    \/ \E i \in DOMAIN logTasks :
          WriteSettles(i) /\ UNCHANGED <<srcVars, reVars, teeVars, fetchVars, routeVars>>
    \/ TeePull /\ UNCHANGED <<srcVars, reVars, writeVars, fetchVars, routeVars>>
    \/ TeeClose /\ UNCHANGED <<srcVars, reVars, writeVars, fetchVars, routeVars>>
    \/ TeeError /\ UNCHANGED <<srcVars, reVars, writeVars, fetchVars, routeVars>>
    \/ pc = "done" /\ ClientRead /\ UNCHANGED <<srcVars, reVars, writeVars, fetchVars, routeVars>>
    \/ pc = "done" /\ ClientEnd /\ UNCHANGED <<srcVars, reVars, writeVars, fetchVars, routeVars>>
    \/ LogRead /\ UNCHANGED <<srcVars, writeVars, fetchVars, routeVars>>
    \/ LogEnd /\ UNCHANGED <<srcVars, writeVars, fetchVars, routeVars>>

SpecFetch == Init /\ [][NextFetch]_vars

\* reassembleFromSSE goes on reading the logging branch
LoggerStep == Logger /\ UNCHANGED <<srcVars, writeVars, fetchVars, routeVars>>

\* ctx.waitUntil keeps the worker alive until the logging branch is read to its
\* end and the callback of collected.then has run
\* a step of the logger is possible
LoggerEnabled ==
    Teed /\ collected.state = "pending" /\ (logQ # <<>> \/ srcState # "open")

SpecFetchLive ==
    /\ SpecFetch
    /\ ([]<>~LoggerEnabled \/ []<><<LoggerStep>>_vars)
    /\ WF_vars(LogAssembled)

-----------------------------------------------------------------------------
(* Properties of reassembleFromSSE *)

\* the bytes of a stream of events
RECURSIVE Bytes(_)
Bytes(events) ==
    IF events = <<>> THEN <<>> ELSE WireOf(Head(events)) \o Bytes(Tail(events))

\* The accumulator after the events given, all handed over in one chunk.
AfterEvents(events) == Drain(InitAcc, Bytes(events)).acc

\* value is the response built from accumulator a.
BuiltFrom(value, a) ==
    /\ value.type = "message"
    /\ value.model = a.model
    /\ value.stop_reason = a.stopReason
    /\ value.usage = a.usage
    /\ value.content = ContentOf(a.blocks)
    /\ IF a.messageId # "" THEN value.id = a.messageId ELSE value.id \in RandomIds

BlockIndices ==
    {Fields(n).index : n \in {m \in ObjectNames : Fields(m).type = "content_block_start"}}

\* the content_block_start event of index i
StartOf(events, i) ==
    LET k == CHOOSE k \in 1..Len(events) :
                /\ IsObjectEvent(events[k])
                /\ Fields(events[k]).type = "content_block_start"
                /\ Fields(events[k]).index = i
    IN  Fields(events[k])

\* the texts of the text_delta events addressed to index i, in arrival order
RECURSIVE TextDeltas(_, _)
TextDeltas(events, i) ==
    IF events = <<>> THEN <<>>
    ELSE LET d == Fields(Head(events))
         IN  (IF /\ IsObjectEvent(Head(events))
                 /\ d.type = "content_block_delta"
                 /\ d.index = i
                 /\ d.delta.type = "text_delta"
              THEN d.delta.text ELSE <<>>) \o TextDeltas(Tail(events), i)

\* the fragments of the input_json_delta events addressed to index i, in arrival order
RECURSIVE JsonDeltas(_, _)
JsonDeltas(events, i) ==
    IF events = <<>> THEN <<>>
    ELSE LET d == Fields(Head(events))
         IN  (IF /\ IsObjectEvent(Head(events))
                 /\ d.type = "content_block_delta"
                 /\ d.index = i
                 /\ d.delta.type = "input_json_delta"
              THEN d.delta.partial_json ELSE <<>>) \o JsonDeltas(Tail(events), i)

\* the message_delta event of a stream that has one
MessageDeltaOf(events) ==
    LET k == CHOOSE k \in 1..Len(events) :
                IsObjectEvent(events[k]) /\ Fields(events[k]).type = "message_delta"
    IN  Fields(events[k])

(* C5: for a stream that follows the protocol's order, the resolved response
   carries the id and model of message_start; every text block holds the text
   given inline at its start followed by the texts of the text_delta events of
   its index in arrival order; stop reason and usage are those of message_delta
   (null and absent when the stream had none). *)
ReassemblesWellFormedStream ==
    (collected.state = "resolved" /\ Received # <<>> /\ WellFormed(Received)) =>
        LET v == collected.value
        IN  /\ v.id = Fields(Received[1]).message.id
            /\ v.model = Fields(Received[1]).message.model
            /\ \A i \in BlockIndices :
                  (Started(Received, i) /\ KindAt(Received, i) = "text") =>
                      /\ Len(v.content) >= i + 1
                      /\ v.content[i + 1].type = "text"
                      /\ v.content[i + 1].text =
                            StartOf(Received, i).content_block.text
                                \o TextDeltas(Received, i)
            /\ IF HasType(Received, "message_delta")
               THEN /\ v.stop_reason = MessageDeltaOf(Received).delta.stop_reason
                    /\ v.usage = MessageDeltaOf(Received).delta.usage
               ELSE v.stop_reason = Nil /\ v.usage = NoUsage

\* a stream of message_start, a text block with inline text and two deltas
WitnessReassemblesWellFormedStream ==
    /\ collected.state = "resolved"
    /\ Received = <<"ms_a", "cbs_t0", "d0_H", "d0_w">>
    /\ collected.value.id = "msg_a"
    /\ collected.value.content[1].text = <<"I", "H", "w">>

\* the input of a tool-use block whose argument buffer is buf, as C6 words it
InputAsClaimed(buf) ==
    IF JsonParse(buf).ok
    THEN [kind |-> JsonParse(buf).kind, members |-> JsonParse(buf).members, raw |-> <<>>]
    ELSE [kind |-> "string", members |-> "", raw |-> buf]

\* the tool-use blocks of a stream that follows the protocol's order: while the
\* stream is read the buffer of each is the raw concatenation of its fragments,
\* and once the promise is resolved its input is what parse gives for the buffer
ToolBlocksHold(parse(_)) ==
    WellFormed(Received) =>
        \A i \in BlockIndices :
            (Started(Received, i) /\ KindAt(Received, i) = "tool_use") =>
                LET buf == JsonDeltas(Received, i)
                    start == StartOf(Received, i).content_block
                IN  IF collected.state = "pending"
                    THEN /\ BlockAt(acc, i).type = "tool_use"
                         /\ BlockAt(acc, i).inputBuffer = buf
                    ELSE /\ Len(collected.value.content) >= i + 1
                         /\ collected.value.content[i + 1].type = "tool_use"
                         /\ collected.value.content[i + 1].id = start.id
                         /\ collected.value.content[i + 1].name = start.name
                         /\ collected.value.content[i + 1].input = parse(buf)

(* C6, as stated: the argument buffer of a tool-use block is the concatenation
   of the input_json_delta fragments of its index in arrival order, parsed once
   at the end; valid JSON gives the parsed value, anything else gives the raw
   buffered string; the block keeps its id and name. *)
ToolInputAsStated == ToolBlocksHold(InputAsClaimed)

(* C6, amended: as stated, except that an empty buffer (a tool-use block that
   received no fragment) gives the empty object and not the empty string. *)
ToolInputParsedAtEnd ==
    ToolBlocksHold(LAMBDA buf : IF buf = <<>> THEN EmptyObject ELSE InputAsClaimed(buf))

\* a tool-use block whose two fragments make valid JSON only together
WitnessToolInputParsedAtEnd ==
    /\ collected.state = "resolved"
    /\ Received = <<"ms_a", "cbs_u1", "d1_open", "d1_close">>
    /\ collected.value.content[2].id = "tool_1"
    /\ collected.value.content[2].input = [kind |-> "object", members |-> "q", raw |-> <<>>]

(* C7: when reading the logging branch fails, the promise is resolved, never
   rejected, and the response is built from exactly the events received in
   full before the failure. *)
ReadFailureKeepsAccumulated ==
    readerExit = "readError" =>
        /\ collected.state = "resolved"
        /\ acc = AfterEvents(Received)
        /\ BuiltFrom(collected.value, AfterEvents(Received))

\* the read fails while part of an event is buffered, after a text block arrived
WitnessReadFailureKeepsAccumulated ==
    /\ readerExit = "readError"
    /\ buffer # <<>>
    /\ Received = <<"ms_a", "cbs_t0", "d0_H">>
    /\ collected.value.content[1].text = <<"I", "H">>

IsMalformed(n) == ~JsonParse(DataText(n)).ok

WithoutMalformed(events) == SelectSeq(events, LAMBDA n : ~IsMalformed(n))

(* C8: an event whose data is no JSON is skipped: the accumulator, and the
   response built from it, are those of the stream without such events, so
   that the events before and after it are applied as usual. *)
SkipsMalformedEvents ==
    (\E k \in 1..Len(Received) : IsMalformed(Received[k])) =>
        /\ collected.state = "pending" => acc = AfterEvents(WithoutMalformed(Received))
        /\ collected.state # "pending" =>
              /\ collected.state = "resolved"
              /\ BuiltFrom(collected.value, AfterEvents(WithoutMalformed(Received)))

\* a malformed event between the start of a text block and a delta for it
WitnessSkipsMalformedEvents ==
    /\ collected.state = "resolved"
    /\ Received = <<"ms_a", "cbs_t0", "bad", "d0_H">>
    /\ collected.value.content[1].text = <<"I", "H">>

\* some message_start of the events carries a message id
CarriesMessageId(events) ==
    \E k \in 1..Len(events) :
        /\ IsObjectEvent(events[k])
        /\ Fields(events[k]).type = "message_start"
        /\ Truthy(Fields(events[k]).message.id)

\* Some message_start of the events carries a message id, and the reassembler
\* gets to it: no event before it makes the reassembler leave its read loop.
ObservesMessageId(events) ==
    \E k \in 1..Len(events) :
        /\ IsObjectEvent(events[k])
        /\ Fields(events[k]).type = "message_start"
        /\ Truthy(Fields(events[k]).message.id)
        /\ \A j \in 1..(k - 1) : ~processRawEvent(InitAcc, Trim(WireOf(events[j]))).threw

(* C10: two runs of the reassembler over the same bytes resolve to responses
   with the same model, stop reason, content and usage, and with the same id
   whenever an event of the stream carried a message id. *)
RerunGivesSameId ==
    (first.state = "resolved" /\ collected.state = "resolved") =>
        /\ collected.value.model = first.value.model
        /\ collected.value.stop_reason = first.value.stop_reason
        /\ collected.value.content = first.value.content
        /\ collected.value.usage = first.value.usage
        /\ CarriesMessageId(sent) => collected.value.id = first.value.id

(* C10, for the ids the reassembler gets to: the two runs agree on model, stop
   reason, content and usage, and on the id whenever a message id was observed
   by the reassembler; only an id that both runs synthesized, none having been
   observed, may differ. *)
RerunGivesSameResponse ==
    (first.state = "resolved" /\ collected.state = "resolved") =>
        /\ collected.value.model = first.value.model
        /\ collected.value.stop_reason = first.value.stop_reason
        /\ collected.value.content = first.value.content
        /\ collected.value.usage = first.value.usage
        /\ ObservesMessageId(Received) => collected.value.id = first.value.id
        /\ collected.value.id # first.value.id =>
              /\ first.synthesized
              /\ acc.messageId = ""
              /\ ~ObservesMessageId(sent)

\* both runs are over, the second with other chunk boundaries, on a full message
WitnessRerunGivesSameResponse ==
    /\ first.state = "resolved"
    /\ collected.state = "resolved"
    /\ sent = <<"ms_a", "cbs_t0", "d0_H">>
    /\ collected.value.id = "msg_a"
    /\ readerExit = "done"
    /\ splits = 1

-----------------------------------------------------------------------------
(* Properties of teeAndCollectStream *)

IsPrefix(a, b) == Len(a) <= Len(b) /\ SubSeq(b, 1, Len(a)) = a

\* the chunks the source has produced
Produced == SubSeq(response.chunks, 1, Len(response.chunks) - Len(srcLeft))

\* a step of the source or of the client, and of nothing else
SourceOrClientStep ==
    (TeeSource \/ Client) /\ UNCHANGED <<srcVars, reVars, writeVars, fetchVars, routeVars>>

\* a step of the source, and of nothing else
SourceStep == TeeSource /\ UNCHANGED <<srcVars, reVars, writeVars, fetchVars, routeVars>>

\* reader.read() of the logging branch can settle: with a chunk that is queued,
\* or with the end or the failure of the source
LogReadSettles == logQ # <<>> \/ srcState # "open"

(* C1: of a response with a body, each branch of the tee gets the chunks of the
   source, unaltered and in order, none dropped or repeated: what a branch has
   read and what it has queued are together what the source produced, and a
   branch read to its end has read the whole body.  Neither branch waits for
   the other: while the client is reading, a step of the source or of the
   client is possible whatever the reassembler has or has not read; and while
   the reassembler's promise is pending, its read can settle or the source can
   step, whatever the client has or has not read. *)
TeeBranchesAreIndependent ==
    Teed =>
        /\ IsPrefix(clientGot, response.chunks)
        /\ IsPrefix(logGot, response.chunks)
        /\ srcState # "errored" =>
              /\ clientGot \o clientQ = Produced
              /\ logGot \o logQ = Produced
        /\ clientState = "done" => clientGot = response.chunks
        /\ readerExit = "done" => logGot = response.chunks
        /\ clientState = "reading" => ENABLED SourceOrClientStep
        /\ collected.state = "pending" => (LogReadSettles \/ ENABLED SourceStep)

\* the client has read a body of three chunks to its end, and the reassembler
\* has not read any of it
WitnessTeeBranchesAreIndependent ==
    /\ Teed
    /\ clientState = "done"
    /\ Len(clientGot) = 3
    /\ clientGot = response.chunks
    /\ logGot = <<>>
    /\ Len(logQ) = 3

(* C9: of a response without a body, teeAndCollectStream returns the response
   itself, its status unchanged, and a promise already resolved with a response
   of type "message", no content, a null stop reason and an id that is not
   empty; nothing is read from any stream. *)
NoBodyPassesThrough ==
    (clientResponse # NotReturned /\ ~response.hasBody) =>
        /\ clientResponse.object = "source"
        /\ clientResponse.status = response.status
        /\ collected.state = "resolved"
        /\ collected.value.type = "message"
        /\ collected.value.content = <<>>
        /\ collected.value.stop_reason = Nil
        /\ collected.value.id \notin {"", Nil}
        /\ ~Teed
        /\ clientGot = <<>> /\ logGot = <<>>
        /\ ~ENABLED SourceOrClientStep

\* teeAndCollectStream has returned for a response of status 500 without a body
WitnessNoBodyPassesThrough ==
    /\ clientResponse.object = "source"
    /\ ~response.hasBody
    /\ response.status = 500
    /\ collected.state = "resolved"

-----------------------------------------------------------------------------
(* Properties of writeLogEntry and of fetch *)

\* the calls of bucket.put made for the i-th call of writeLogEntry
PutsOf(i) == {k \in DOMAIN putCalls : putCalls[k].task = i}

(* C3: whatever the entry and however bucket.put ends, the promise of
   writeLogEntry is never rejected: it is pending while bucket.put is, and
   otherwise resolved with undefined; bucket.put is called at most once for
   it, also after a failure. *)
WriteNeverRaises ==
    \A i \in DOMAIN logTasks :
        /\ logTasks[i].state \in {"awaitPut", "resolved"}
        /\ logTasks[i].state = "awaitPut" => logTasks[i].put \in {"resolves", "rejects"}
        /\ logTasks[i].value = Nil
        /\ Cardinality(PutsOf(i)) <= 1
        /\ logTasks[i].put # "none" => Cardinality(PutsOf(i)) = 1

\* bucket.put has rejected, the promise is resolved and nothing was stored
WitnessWriteNeverRaises ==
    /\ Len(logTasks) = 1
    /\ logTasks[1].put = "rejects"
    /\ logTasks[1].state = "resolved"
    /\ Len(putCalls) = 1
    /\ bucket = {}

\* The response of a request that went upstream, as the request and the
\* upstream's answer determine it.
ExpectedReturn ==
    IF upstream.kind = "failed" THEN errorResponse("internal")
    ELSE IF upstream.kind = "non2xx"
    THEN IF req.provider = "anthropic"
         THEN [kind |-> "upstream", status |-> upstream.status, error |-> Nil,
               body |-> IF upstream.hasBody THEN "upstream" ELSE "default"]
         ELSE errorResponse(IF req.stream \/ upstream.json
                            THEN "invalid_request" ELSE "internal")
    ELSE IF req.provider = "anthropic" \/ req.stream
    THEN [kind |-> "tee", status |-> upstream.status, error |-> Nil,
          body |-> IF upstream.hasBody THEN "clientBranch" ELSE "null"]
    ELSE [kind |-> "translated", status |-> 200, error |-> Nil, body |-> "json"]

(* C2: the handler returns without waiting for the reassembly or for the audit
   write: once it has a response to return, returning it is possible whatever
   the state of the promise and of the writes; and the response returned, and
   the chunks of its body the client reads, are what the request and the
   upstream's answer determine, whatever becomes of the logging. *)
FetchReturnsWithoutWaiting ==
    /\ pc = "respond" => ENABLED FetchReturns
    /\ (pc \in {"respond", "done"} /\ upstream.kind # "none") => returned = ExpectedReturn
    /\ returned.body = "clientBranch" =>
          /\ IsPrefix(clientGot, response.chunks)
          /\ clientState = "done" => clientGot = response.chunks

\* the client has the response and the whole of its body, while the reassembly
\* promise is still pending and no audit write has been made
WitnessFetchReturnsWithoutWaiting ==
    /\ pc = "done"
    /\ returned.body = "clientBranch"
    /\ clientState = "done"
    /\ Len(clientGot) = 2
    /\ collected.state = "pending"
    /\ thenPending
    /\ logTasks = <<>>

\* all that the handler has scheduled has run: it has returned, and the promise
\* of a body that was teed is resolved and its callback has run
RequestIsOver == pc = "done" /\ ~thenPending /\ (Teed => collected.state = "resolved")

(* C4: for a request whose audit record was constructed and whose upstream
   answered, with success or with a status that is not 2xx, writeLogEntry is
   called exactly once over the life of the request: never twice, and once by
   the time the request is over. *)
OneAuditWritePerRequest ==
    (baseEntry.present /\ upstream.kind \in {"ok", "non2xx"}) =>
        /\ Len(logTasks) <= 1
        /\ RequestIsOver => Len(logTasks) = 1

-----------------------------------------------------------------------------
(* Properties of deriveTurnIndex *)

\* the positions of the messages of the assistant
AssistantAt == {k \in DOMAIN messages : messages[k].role = "assistant"}

(* C11: deriveTurnIndex returns the number of messages whose role is assistant,
   wherever they stand and whatever the shape of their content; it is 0 for
   the empty sequence and for a sequence of user messages only; no step
   changes the sequence it was given. *)
TurnIndexCountsAssistant ==
    /\ [](turnIndex # NotDerived =>
            /\ turnIndex = Cardinality(AssistantAt)
            /\ messages = <<>> => turnIndex = 0
            /\ (\A k \in DOMAIN messages : messages[k].role = "user") => turnIndex = 0)
    /\ [][messages' = messages]_vars

\* two assistant messages of different content shapes around a system message
WitnessTurnIndexCountsAssistant ==
    /\ turnIndex = 2
    /\ Len(messages) = 3
    /\ messages[1] = [role |-> "assistant", content |-> "blocks"]
    /\ messages[2].role = "system"
    /\ messages[3] = [role |-> "assistant", content |-> "string"]

-----------------------------------------------------------------------------
(* Properties of buildLogKey *)

\* two entries differ in session, turn index or request id
DifferInIdentity(e1, e2) ==
    \/ e1.sessionId # e2.sessionId
    \/ e1.turnIndex # e2.turnIndex
    \/ e1.requestId # e2.requestId

(* C12: the key writeLogEntry passes to the store is "logs/", the first ten
   characters of the timestamp (the date), "/", the session id, "/", the turn
   index, "_", the request id and ".json"; and no entry that differs from the
   one written in session, turn index or request id has that key. *)
LogKeyNamesTheRecord ==
    \A k \in DOMAIN putCalls :
        LET e == logTasks[putCalls[k].task].entry
            date == SubSeq(e.timestamp, 1, 10)
        IN  /\ putCalls[k].key =
                  <<"logs/">> \o date \o <<"/">> \o e.sessionId \o <<"/">>
                      \o Decimal(e.turnIndex) \o <<"_">> \o e.requestId \o <<".json">>
            /\ Len(date) = 10 /\ date[5] = "-" /\ date[8] = "-"
            /\ putCalls[k].body.json = e
            /\ \A other \in Entries :
                  DifferInIdentity(e, other) => buildLogKey(other) # putCalls[k].key

\* an entry whose session id holds a slash and an underscore has been written
WitnessLogKeyNamesTheRecord ==
    /\ Len(putCalls) = 1
    /\ logTasks[1].entry.sessionId = <<"s", "/", "0", "_", "r">>
    /\ logTasks[1].entry.turnIndex = 1
    /\ putCalls[1].key =
          <<"logs/", "2", "0", "2", "6", "-", "0", "2", "-", "1", "5", "/",
            "s", "/", "0", "_", "r", "/", "1", "_", "r", "_", "2", ".json">>
    /\ bucket = {putCalls[1].key}

-----------------------------------------------------------------------------
(* Properties of fetch: answers of the upstream *)

\* the handler has its response for a request the upstream has answered
Answered == pc \in {"respond", "done"} /\ upstream.kind \in {"ok", "non2xx"}

\* teeAndCollectStream has been called
TeeCalled == clientResponse # NotReturned

(* C13: of a request that is not streamed, an answer of the upstream with a
   status that is not 2xx is returned to the client with the upstream's status
   and body, on every provider, and one audit record is written for it, with
   the error and the status and with a null response. *)
NonStreamingErrorReturnedAsIs ==
    (Answered /\ upstream.kind = "non2xx" /\ ~req.stream) =>
        /\ returned.kind = "upstream"
        /\ returned.status = upstream.status
        /\ returned.body = (IF upstream.hasBody THEN "upstream" ELSE "empty")
        /\ Len(logTasks) = 1
        /\ logTasks[1].entry.error.present
        /\ logTasks[1].entry.error.status = upstream.status
        /\ logTasks[1].entry.response = NullLogged

\* the native upstream has answered 500 with a body to a request that is not
\* streamed: the answer is returned and an error record is written
WitnessNonStreamingErrorReturnedAsIs ==
    /\ pc = "done"
    /\ req.provider = "anthropic" /\ ~req.stream
    /\ upstream.kind = "non2xx" /\ upstream.status = 500 /\ upstream.hasBody
    /\ returned.kind = "upstream" /\ returned.status = 500
    /\ Len(logTasks) = 1
    /\ logTasks[1].entry.error.status = 500

(* C14: of a streamed request, an answer of the upstream with a status that is
   not 2xx becomes an invalid-request error, on every provider, and nothing of
   a stream reaches the client; teeAndCollectStream is called only for an
   answer with a status of success. *)
StreamingErrorBecomesInvalidRequest ==
    /\ (Answered /\ upstream.kind = "non2xx" /\ req.stream) =>
          /\ returned = errorResponse("invalid_request")
          /\ ~TeeCalled
          /\ clientGot = <<>>
    /\ TeeCalled => (upstream.kind = "ok" /\ IsOk(upstream.status))

\* openrouter has answered 500 to a streamed request
WitnessStreamingErrorBecomesInvalidRequest ==
    /\ pc = "done"
    /\ req.provider = "openrouter" /\ req.stream
    /\ upstream.kind = "non2xx" /\ upstream.status = 500
    /\ returned = errorResponse("invalid_request")
    /\ ~TeeCalled

(* C19: of a request that is not streamed and that the upstream answers with
   success, on every provider, the response does not go through
   teeAndCollectStream: the audit record is written at once, with the response
   that is returned and with streaming false; and an audit record has streaming
   true only for a request that asked for a stream. *)
NonStreamingSkipsTee ==
    /\ (Answered /\ upstream.kind = "ok" /\ ~req.stream) =>
          /\ ~TeeCalled
          /\ returned.kind = "translated"
          /\ Len(logTasks) = 1
          /\ logTasks[1].entry.response = TranslatedResponse
          /\ ~logTasks[1].entry.streaming
    /\ \A k \in DOMAIN logTasks : logTasks[k].entry.streaming => req.stream

\* vllm has answered 200 to a request that is not streamed: the translated
\* response is returned and logged with streaming false, and nothing is teed
WitnessNonStreamingSkipsTee ==
    /\ pc = "done"
    /\ req.provider = "vllm" /\ ~req.stream
    /\ upstream.kind = "ok"
    /\ returned.kind = "translated"
    /\ ~TeeCalled
    /\ Len(logTasks) = 1
    /\ ~logTasks[1].entry.streaming

-----------------------------------------------------------------------------
(* Properties of fetch: the way to the upstream call *)

\* the providers that mandate authentication
MandatesAuth == {"anthropic", "openrouter"}

\* request i carries a bearer token or an x-api-key
CarriesCredential(i) ==
    \/ IsBearer(i.authorization) /\ BearerToken(i.authorization) # <<>>
    \/ i.xApiKey # <<>>

\* C15: no upstream call goes to a provider that mandates authentication
\* without a client credential that is not empty, and a request with neither a
\* bearer token nor an x-api-key whose provider, after the server-tool policy,
\* mandates authentication ends with an authentication error and no upstream
\* call.
AuthMandatedBeforeUpstream ==
    /\ upstreamCall.made /\ upstreamCall.to \in MandatesAuth => upstreamCall.key # <<>>
    /\ /\ request.given
       /\ routing.provider \in MandatesAuth
       /\ ~CarriesCredential(request)
       => rejected.class = "authentication" /\ ~upstreamCall.made

WitnessAuthMandatedBeforeUpstream ==
    /\ request.given
    /\ ~CarriesCredential(request)
    /\ request.otherServerTools
    /\ request.serverToolsMode = "enforceAnthropic"
    /\ routing.resolved.provider = "openrouter"
    /\ rejected.class = "authentication"
    /\ ~upstreamCall.made

\* the request reached the server-tool policy of lines 54 to 65 with a provider
\* that is not the native one and with a server tool that is no web search
PolicyApplies ==
    /\ request.given
    /\ request.route /\ request.parses
    /\ rejected.class # "authentication"
    /\ routing.resolved.provider # "anthropic"
    /\ request.otherServerTools

\* rejected with an invalid-request error that names the tools, no upstream call
RejectedForServerTools ==
    rejected = [class |-> "invalid_request", about |-> "serverTools"] /\ ~upstreamCall.made

\* sent to the native provider with the wire model reset to the original model
ForcedToNative ==
    /\ upstreamCall.made /\ upstreamCall.to = "anthropic"
    /\ routing.provider = "anthropic"
    /\ routing.wireModel = routing.originalModel

\* C16: a request that declares a server tool that is no web search is never
\* forwarded to a backend that is not the native one, for every value of the
\* server-tool mode: it is rejected naming the tools in mode error, sent to the
\* native provider with the wire model reset in mode enforceAnthropic, and it
\* has no other outcome.
OtherServerToolsStayNative ==
    PolicyApplies =>
        /\ ~(upstreamCall.made /\ upstreamCall.to # "anthropic")
        /\ request.serverToolsMode = "error" => RejectedForServerTools
        /\ request.serverToolsMode = "enforceAnthropic" => ForcedToNative
        /\ RejectedForServerTools \/ ForcedToNative

WitnessOtherServerToolsStayNative ==
    /\ PolicyApplies
    /\ request.serverToolsMode = "enforceAnthropic"
    /\ routing.resolved.provider = "openrouter"
    /\ routing.resolved.wireModel # routing.wireModel
    /\ ForcedToNative

\* the request declares MCP servers and reached the check of line 74
McpChecked ==
    /\ request.given
    /\ request.route /\ request.parses
    /\ request.mcp
    /\ rejected.class # "authentication"
    /\ rejected.about # "serverTools"

\* rejected with an invalid-request error about MCP, no upstream call
RejectedForMcp ==
    rejected = [class |-> "invalid_request", about |-> "mcp"] /\ ~upstreamCall.made

\* C17, as stated: a request that declares MCP servers is rejected with an
\* invalid-request error and no upstream call exactly when the provider after
\* the server-tool policy is not the native one and the bridge mode is not
\* http-sse, and is dispatched otherwise.
McpRejectedExactlyUnbridged ==
    request.given /\ request.route /\ request.parses /\ request.mcp =>
        LET unbridged == routing.provider # "anthropic" /\ request.bridge # "http-sse"
        IN  /\ (rejected.class = "invalid_request" /\ ~upstreamCall.made) <=> unbridged
            /\ ~unbridged => upstreamCall.made

\* C17, amended: a request that declares MCP servers and passes authentication
\* and the server-tool policy is rejected for MCP, with no upstream call,
\* exactly when the provider after the policy is not the native one and the
\* bridge mode is not http-sse; otherwise it is dispatched to that provider,
\* unless the provider is vllm or sglang with no base URL configured.
McpRejectedWhenChecked ==
    McpChecked =>
        LET unbridged == routing.provider # "anthropic" /\ request.bridge # "http-sse"
        IN  /\ RejectedForMcp <=> unbridged
            /\ ~unbridged =>
                   \/ upstreamCall.made /\ upstreamCall.to = routing.provider
                   \/ /\ rejected.about = "configuration"
                      /\ routing.provider \in {"vllm", "sglang"}
                      /\ ~request.configured

WitnessMcpRejectedWhenChecked ==
    /\ McpChecked
    /\ request.otherServerTools
    /\ request.serverToolsMode = "enforceAnthropic"
    /\ routing.resolved.provider = "openrouter"
    /\ request.bridge = "off"
    /\ upstreamCall.made /\ upstreamCall.to = "anthropic"

-----------------------------------------------------------------------------
(* Properties of resolveProvider *)

\* resolveProvider was called for the request
Resolved == request.given /\ routing.resolved # NoResolution

\* the model identifiers that carry a recognized prefix
Prefixed ==
    {m \in Models : /\ Len(m) >= 2
                    /\ \/ m[1] = "or" /\ m[2] = ":"
                       \/ m[1] \in {"vllm", "sglang"} /\ m[2] \in {":", "/"}}

\* C18: for a model identifier with a recognized prefix the resolver picks the
\* provider the prefix names and a wire model that is the identifier without
\* the prefix, for or: after the default vendor when it has no vendor segment;
\* originalModel is the identifier as supplied; with no recognized prefix and
\* no override header the provider is the native one and the wire model is
\* the identifier.
ResolverFollowsPrefix ==
    Resolved =>
        LET m == request.model
            r == routing.resolved
        IN  /\ r.originalModel = m
            /\ m \in Prefixed /\ m[1] = "or" =>
                   /\ r.provider = "openrouter"
                   /\ IF \E k \in 3..Len(m) : m[k] = "/"
                      THEN <<"or", ":">> \o r.wireModel = m
                      ELSE <<"or", ":">> \o SubSeq(r.wireModel, 3, Len(r.wireModel)) = m
                           /\ SubSeq(r.wireModel, 1, 2) = <<"openai", "/">>
            /\ m \in Prefixed /\ m[1] \in {"vllm", "sglang"} =>
                   /\ r.provider = m[1]
                   /\ <<m[1], m[2]>> \o r.wireModel = m
            /\ m \notin Prefixed /\ request.headers.provider = "none" =>
                   r.provider = "anthropic" /\ r.wireModel = m
            /\ m = <<"or", ":", "gpt">> => r.wireModel = <<"openai", "/", "gpt">>
            /\ m = <<"vllm", ":", "meta", "/", "llama">> =>
                   r.wireModel = <<"meta", "/", "llama">>
            /\ m = <<"vllm", "/", "local">> => r.wireModel = <<"local">>

WitnessResolverFollowsPrefix ==
    /\ Resolved
    /\ request.model = <<"or", ":", "gpt">>
    /\ request.headers = [provider |-> "vllm", wireModel |-> <<"custom">>]
    /\ routing.resolved =
           [provider |-> "openrouter", wireModel |-> <<"openai", "/", "gpt">>,
            originalModel |-> <<"or", ":", "gpt">>]

-----------------------------------------------------------------------------
(* Properties of proxyAnthropic *)

\* C20: for every request dispatched to the native provider, the model sent
\* upstream is the resolved wire model, also where that differs from the model
\* the client supplied.
NativeSendsWireModel ==
    upstreamCall.made /\ upstreamCall.to = "anthropic" =>
        upstreamCall.model = routing.wireModel

WitnessNativeSendsWireModel ==
    /\ upstreamCall.made /\ upstreamCall.to = "anthropic"
    /\ routing.resolved.provider = "openrouter"
    /\ routing.resolved.wireModel # routing.wireModel
    /\ upstreamCall.model = routing.wireModel
    /\ upstreamCall.model = <<"or", ":", "gpt">>

-----------------------------------------------------------------------------
(* Properties of logStreamingResponse *)

\* the audit writes issued for a streamed response
StreamedWrites == {k \in DOMAIN logTasks : logTasks[k].entry.streaming}

\* the source of the teed body has ended or failed
SourceOver == Teed /\ srcState # "open"

(* C21: for a streamed response no audit write is issued before the logging
   branch has reached the end of the stream or a read error; once the source
   ends or fails the promise of the reassembler is eventually resolved and one
   audit write with the reassembled response and streaming = true is eventually
   issued; its latency is measured when it is issued. *)
StreamedWriteFollowsReassembly ==
    /\ [](Teed /\ StreamedWrites # {} => readerExit \in {"done", "readError"})
    /\ SourceOver ~> (collected.state = "resolved")
    /\ SourceOver ~>
           /\ Cardinality(StreamedWrites) = 1
           /\ \A k \in StreamedWrites :
                  logTasks[k].entry.response = [present |-> TRUE, value |-> collected.value]
    /\ [][thenPending /\ ~thenPending' =>
              logTasks'[Len(logTasks')].entry.latencyMs = now - req.startTime]_vars

\* the write is issued when the stream has been read to its end, a millisecond
\* after the response was returned
WitnessStreamedWriteFollowsReassembly ==
    /\ Teed
    /\ readerExit = "done"
    /\ logGot = <<WireOf("ms_a"), WireOf("md_end")>>
    /\ Cardinality(StreamedWrites) = 1
    /\ \A k \in StreamedWrites :
           /\ logTasks[k].entry.latencyMs = 1
           /\ logTasks[k].entry.response.value.stop_reason = "end_turn"

-----------------------------------------------------------------------------
(* Properties of processRawEvent *)

\* the places of the events of type t among the events given
PlacesOf(events, t) ==
    {k \in 1..Len(events) : IsObjectEvent(events[k]) /\ Fields(events[k]).type = t}

\* no event received made processRawEvent raise
NothingRaised == \A k \in 1..Len(Received) : Received[k] # "nul"

(* C22: the first message_start wins: once an id and a model are captured from
   a message_start, a later message_start of the same stream that carries
   another id or model leaves them as they are. *)
FirstMessageStartWins ==
    NothingRaised /\ PlacesOf(Received, "message_start") # {} =>
        LET start == Fields(Received[MinOf(PlacesOf(Received, "message_start"))])
        IN  /\ acc.messageId = start.message.id
            /\ acc.model = start.message.model

\* the same message_start arrives twice
WitnessFirstMessageStartWins ==
    /\ Received = <<"ms_a", "ms_a">>
    /\ acc.messageId = "msg_a"
    /\ acc.model = "m1"

\* the stop reason event n carries where the reassembler looks for one: in
\* delta.stop_reason of a message_delta, at the top of a message_stop
StopReasonOf(n) ==
    IF ~IsObjectEvent(n) THEN Nil
    ELSE IF Fields(n).type = "message_delta" THEN Fields(n).delta.stop_reason
    ELSE IF Fields(n).type = "message_stop" THEN Fields(n).stop_reason
    ELSE Nil

\* the last stop reason that is not empty among the events given, null if none
RECURSIVE LastStopReason(_)
LastStopReason(events) ==
    IF events = <<>> THEN Nil
    ELSE IF Truthy(StopReasonOf(events[Len(events)])) THEN StopReasonOf(events[Len(events)])
    ELSE LastStopReason(SubSeq(events, 1, Len(events) - 1))

(* C23: the stop reason is the last stop reason that is not empty among those
   seen, taken from delta.stop_reason of message_delta events and from the top
   of message_stop events, and null if there was none; an event that carries no
   stop reason, of whatever type, never changes a stop reason captured. *)
StopReasonIsLastSeen ==
    /\ [](/\ acc.stopReason = LastStopReason(Received)
          /\ collected.state = "resolved" =>
                 collected.value.stop_reason = LastStopReason(Received))
    /\ [][\A n \in EventNames \cup ExtraEvents :
              (sent' = Append(sent, n) /\ ~Truthy(StopReasonOf(n))) =>
                  acc'.stopReason = acc.stopReason]_vars

\* a message_stop with a stop reason after a message_delta with another, and a
\* content_block_stop after both
WitnessStopReasonIsLastSeen ==
    /\ Received = <<"ms_a", "md_end", "mstop_max", "cbstop0">>
    /\ collected.state = "resolved"
    /\ collected.value.stop_reason = "max_tokens"

\* the indices that received a content_block_start of a text or tool-use block
StartedIndices(events) ==
    {Fields(events[k]).index :
        k \in {j \in PlacesOf(events, "content_block_start") :
                  Fields(events[j]).content_block.type \in {"text", "tool_use"}}}

\* the j-th smallest of a set of numbers
RECURSIVE Nth(_, _)
Nth(S, j) == IF j = 1 THEN MinOf(S) ELSE Nth(S \ {MinOf(S)}, j - 1)

(* C24: the content of the reassembled response holds one block for each index
   that received a content_block_start, in ascending order of the indices, and
   no entry for an index that was never started: it is as long as there are
   started indices. *)
ContentHasStartedBlocksOnly ==
    collected.state = "resolved" /\ NothingRaised =>
        LET content == collected.value.content
            started == StartedIndices(Received)
        IN  /\ Len(content) = Cardinality(started)
            /\ \A j \in 1..Len(content) : content[j].type # "hole"
            /\ \A j \in 1..Cardinality(started) :
                   /\ j <= Len(content)
                   /\ content[j].type = BlockAt(acc, Nth(started, j)).type

\* two blocks started out of order, index 1 before index 0
WitnessContentHasStartedBlocksOnly ==
    /\ collected.state = "resolved"
    /\ Received = <<"ms_a", "cbs_u1", "cbs_t0">>
    /\ Len(collected.value.content) = 2
    /\ collected.value.content[1].type = "text"
    /\ collected.value.content[2].type = "tool_use"

\* Event n is a content_block_delta that is not to be applied to accumulator a:
\* its kind does not match the block at its index, or is unknown, or no block
\* was started at its index.
DeltaMisses(a, n) ==
    /\ IsObjectEvent(n)
    /\ Fields(n).type = "content_block_delta"
    /\ LET kind == Fields(n).delta.type
           idx == Fields(n).index
           block == IF idx + 1 \in DOMAIN a.blocks THEN a.blocks[idx + 1].type ELSE "hole"
       IN  ~(\/ kind = "text_delta" /\ block = "text"
             \/ kind = "input_json_delta" /\ block = "tool_use")

\* the events given without the content_block_delta events that are not to be
\* applied, a being the accumulator before the first of them
RECURSIVE DeltasApplied(_, _)
DeltasApplied(events, a) ==
    IF events = <<>> THEN <<>>
    ELSE IF DeltaMisses(a, Head(events)) THEN DeltasApplied(Tail(events), a)
    ELSE <<Head(events)>>
            \o DeltasApplied(Tail(events), processRawEvent(a, Trim(WireOf(Head(events)))).acc)

(* C25: a content_block_delta is applied only when its kind matches the block
   at its index; a delta of the other kind, of an unknown kind, or for an index
   with no started block leaves blocks, id, model, stop reason and usage as
   they are and raises nothing, and later events are still processed. *)
MismatchedDeltaIsIgnored ==
    /\ [][\A n \in EventNames \cup ExtraEvents :
              (sent' = Append(sent, n) /\ collected.state = "pending" /\ DeltaMisses(acc, n)) =>
                  /\ acc' = acc
                  /\ collected'.state = "pending"
                  /\ readerExit' = "none"]_vars
    /\ [](NothingRaised => acc = AfterEvents(DeltasApplied(Received, InitAcc)))

\* a JSON fragment for a text block, and a text delta applied after it
WitnessMismatchedDeltaIsIgnored ==
    /\ Received = <<"ms_a", "cbs_t0", "d0_json", "d0_H">>
    /\ collected.state = "resolved"
    /\ collected.value.content = <<[type |-> "text", text |-> <<"I", "H">>, id |-> "",
                                    name |-> "", input |-> EmptyObject]>>

-----------------------------------------------------------------------------
(* Properties of reassembleFromSSE: chunks *)

\* Whatever the chunks were, the accumulator is that of the events handed over
\* up to their blank line, applied once each and in their order; and a second
\* run over the same bytes, cut otherwise, resolves to the same model, stop
\* reason, content and usage.
ChunksLeaveNoTrace ==
    /\ acc = AfterEvents(Received)
    /\ (first.state = "resolved" /\ collected.state = "resolved") =>
           /\ collected.value.model = first.value.model
           /\ collected.value.stop_reason = first.value.stop_reason
           /\ collected.value.content = first.value.content
           /\ collected.value.usage = first.value.usage

(* C26, as stated: the reassembled response does not depend on how the bytes
   are cut into chunks: two ways of cutting the same bytes give the same id,
   model, stop reason, content and usage, and only the events that a blank line
   ends are applied, once each and in stream order. *)
ChunkingGivesSameResponse ==
    /\ ChunksLeaveNoTrace
    /\ (first.state = "resolved" /\ collected.state = "resolved") =>
           collected.value.id = first.value.id

(* C26, amended: as stated, except for the id: it is the same when the
   reassembler captured a message id from the stream, and otherwise each run
   synthesizes an id of its own. *)
ChunkingGivesSameContent ==
    /\ ChunksLeaveNoTrace
    /\ (first.state = "resolved" /\ collected.state = "resolved") =>
           IF acc.messageId # ""
           THEN collected.value.id = first.value.id /\ ~first.synthesized
           ELSE collected.value.id \in RandomIds /\ first.synthesized

\* second run, the chunk ending between the two line feeds of the blank line
\* that ends the start of a text block: the block is not yet there
WitnessChunkingGivesSameContent ==
    /\ first.state = "resolved"
    /\ Len(first.value.content) = 1
    /\ sent = <<"ms_a", "cbs_t0">>
    /\ todo = <<>>
    /\ wire = <<LF>>
    /\ acc.messageId = "msg_a"
    /\ acc.blocks = <<>>

-----------------------------------------------------------------------------
(* Properties of reassembleFromSSE: one event *)

\* the events of the stream whose data is not the JSON value null
NotNull(events) == SelectSeq(events, LAMBDA n : n # "nul")

(* C27: no single event can end reassembly early: whatever JSON value the data
   of an event parses to, processing it raises nothing that leaves the read
   loop, no event the source writes after it stays unread, and the accumulator
   is that of the stream without the event. *)
NoEventEndsReassembly ==
    /\ readerExit # "threw"
    /\ todo = <<>>
    /\ acc = AfterEvents(NotNull(Received))

\* data that is an object without the fields of its event type, between two
\* events of the protocol: the text block started after it is there
WitnessNoEventEndsReassembly ==
    /\ sent = <<"ms_a", "lack", "cbs_t0">>
    /\ wire = <<>>
    /\ todo = <<>>
    /\ readerExit = "none"
    /\ acc.messageId = "msg_a"
    /\ Len(acc.blocks) = 1
    /\ NoEventEndsReassembly

=============================================================================
